---- MODULE Spec2Model ----
(***************************************************************************)
(* Chip identity / zone-transition machine and round-phase driver of the   *)
(* Quacks rules engine (state.py, actions.py, setup.py, chip_policies.py,  *)
(* rounds.py).                                                             *)
(*                                                                         *)
(* Python dictionaries are functions whose DOMAIN is the set of keys       *)
(* present; Python lists are sequences (index 1 is Python index 0).        *)
(* A Python function that mutates the game state is an operator from the   *)
(* chip state record S to a result [S, err, ret]: err is TRUE when the     *)
(* call raised, and S then holds whatever the call had already mutated.    *)
(* Of the public log (broadcast) the model keeps the entries written by    *)
(* execute_purple_event_now.                                               *)
(***************************************************************************)
EXTENDS Integers, Sequences, FiniteSets, TLC

VARIABLES
  box, bags, palms, desktops, pots, where, players,   \* GameStateTD chip / player fields
  event_deck, event_discard, current_event, active_blue_event, public_log, round_ctx,
  pc, round_no, phase_idx,                             \* run_game / run_round position
  rounds,                                              \* the number of rounds run_game's loop plays
  draw_i, exploded, pos_last, results, eff_limit,      \* locals of phase_drawing
  invoked, crashed_in,                                 \* history: handlers invoked this round, where an error escaped
  gates,                                               \* history: handlers that passed their closing confirmation gate this round
  round_start, granted,                                \* history: holdings at round start, chips granted from the box
  potion_spent,                                        \* history: how often each player's potion undid a placement
  commits,                                             \* history: the latest drawing loop's bag size at its start, chips committed, potion undos, EV15 offers, palm chips the latest iteration put back (rounds with return-all), loop ended by an empty bag, public-log entries of the latest commit
  audit,                                               \* history: prompts of the latest placement shown while the commit had no log entry
  gate,                                                \* confirm_all_players: the call in progress
  inp,                                                 \* history: the decisions and generator values the last step consumed
  twin,                                                \* history: a step under replay (state before, state after, inputs)
  call,                                                \* history: last direct call of an action of actions.py / setup.py
  sess                                                 \* web/game_manager.py: the GameSession of the web layer, and the last request it served

chipVars == <<box, bags, palms, desktops, pots, where, players>>
eventVars == <<event_deck, event_discard, current_event, active_blue_event, public_log>>
driverVars == <<pc, round_no, rounds, phase_idx, invoked, gates, crashed_in>>
drawVars == <<draw_i, exploded, pos_last, results, eff_limit>>
histVars == <<round_start, granted, potion_spent, commits, audit>>
vars == <<chipVars, eventVars, round_ctx, driverVars, drawVars, histVars, call, gate, inp, twin, sess>>

----------------------------------------------------------------------------
(* Bounds of the model *)

\* rounds played by the model's run_game (the program plays 9)
MaxRounds == 1
\* largest number of chips a player asks to draw to the palm in one iteration
MaxPalmDraw == 2
\* rounds played by the short game
ShortRounds == 2
\* most players listed in a direct call of confirm_all_players
MaxGateList == 3
\* most answers typed during one call of confirm_all_players
MaxAnswers == 4
\* largest rat-tail count a player enters
MaxRatTails == 1
\* the gray_limit argument given to run_game
GrayLimitArg == 2

----------------------------------------------------------------------------
(* Program constants *)

PLAYER_COUNT == 2
RUBY_COST == 2
None == -1

PlayerIds == 0..(PLAYER_COUNT - 1)
\* run_game: player_ids = list(range(player_count))
player_ids == [i \in 1..PLAYER_COUNT |-> i - 1]

Zones == {"box", "bag", "palm", "desktop", "pot"}

----------------------------------------------------------------------------
(* Chip pool: state.py *)

\* Inventories handed to build_pool (chips_def), as <<color, value, count>>:
\* the pool of the game, of the drawing rounds, of the direct calls and of the
\* calls that take from the box.
GAME_CHIPS == { <<"gray", 1, 1>>, <<"gray", 2, 2>>, <<"orange", 1, 1>>, <<"purple", 1, 1>> }
DRAW_CHIPS == { <<"gray", 1, 2>>, <<"gray", 2, 1>>, <<"orange", 1, 1>>,
                <<"yellow", 1, 1>>, <<"red", 1, 1>> }
CALL_CHIPS == { <<"gray", 1, 1>>, <<"gray", 2, 1>>, <<"yellow", 1, 1>>, <<"purple", 1, 1>> }
SUPPLY_CHIPS == { <<"purple", 1, 2>>, <<"orange", 1, 1>>, <<"orange", 6, 1>> }
\* the pool of the direct calls of the placement step
STEP_CHIPS == { <<"red", 1, 1>>, <<"orange", 1, 2>> }
CHIPS == GAME_CHIPS \cup DRAW_CHIPS \cup CALL_CHIPS \cup SUPPLY_CHIPS \cup STEP_CHIPS

type_id(color, value) == <<color, value>>
chip_id(tid, serial) == <<tid[1], tid[2], serial>>

chip_types == [tid \in {type_id(e[1], e[2]) : e \in CHIPS} |->
                 [type_id |-> tid, color |-> tid[1], value |-> tid[2]]]

ChipsOf(chips_def) ==
  UNION { {chip_id(type_id(e[1], e[2]), s) : s \in 1..e[3]} : e \in chips_def }

AllChips == ChipsOf(CHIPS)

chips == [cid \in AllChips |-> [chip_id |-> cid, type_id |-> type_id(cid[1], cid[2])]]

ChipColor(cid) == chip_types[chips[cid].type_id].color
ChipValue(cid) == chip_types[chips[cid].type_id].value

\* Python's order of the chip_id strings "color:value#0001": by color name,
\* then by the value digit, then by the zero-padded serial.
ColorRank == [c \in {"black", "blue", "gray", "green", "greenred", "orange",
                     "purple", "red", "yellow"} |->
                CASE c = "black" -> 1 [] c = "blue" -> 2 [] c = "gray" -> 3
                  [] c = "green" -> 4 [] c = "greenred" -> 5 [] c = "orange" -> 6
                  [] c = "purple" -> 7 [] c = "red" -> 8 [] c = "yellow" -> 9]

ChipIdLess(a, b) ==
  \/ ColorRank[a[1]] < ColorRank[b[1]]
  \/ a[1] = b[1] /\ a[2] < b[2]
  \/ a[1] = b[1] /\ a[2] = b[2] /\ a[3] < b[3]

\* the last chip of the sorted list instead of the first
Mutant_MinChip(set) == CHOOSE c \in set : \A d \in set : d = c \/ ChipIdLess(d, c)

\* sorted(set of chip ids)[0]
MinChip(set) == CHOOSE c \in set : \A d \in set : d = c \/ ChipIdLess(c, d)

Loc(zone, player) == [zone |-> zone, player |-> player]

build_pool(chips_def) ==
  [ box |-> ChipsOf(chips_def),
    bags |-> << >>, palms |-> << >>, desktops |-> << >>, pots |-> << >>,
    where |-> [cid \in ChipsOf(chips_def) |-> Loc("box", None)],
    players |-> << >> ]

NewPlayer == [coins |-> 0, victory_points |-> 0, rubies |-> 0,
              droplet_pos |-> 0, potion_filled |-> TRUE]

\* dict.setdefault(k, v)
SetDefault(f, k, v) == IF k \in DOMAIN f THEN f ELSE f @@ (k :> v)

ensure_player(S, p) ==
  [S EXCEPT !.bags = SetDefault(@, p, << >>),
            !.palms = SetDefault(@, p, << >>),
            !.desktops = SetDefault(@, p, << >>),
            !.pots = SetDefault(@, p, << >>),
            !.players = SetDefault(@, p, NewPlayer)]

----------------------------------------------------------------------------
(* Results of calls *)

Ok(S, ret) == [S |-> S, err |-> FALSE, ret |-> ret]
Raise(S) == [S |-> S, err |-> TRUE, ret |-> << >>]

----------------------------------------------------------------------------
(* List helpers *)

\* bag[i] = bag[-1]; bag.pop()   (i is 1-based here)
SwapPop(bag, i) ==
  [k \in 1..(Len(bag) - 1) |-> IF k = i THEN bag[Len(bag)] ELSE bag[k]]

Elems(seq) == {seq[k] : k \in 1..Len(seq)}

\* list.remove(x): removes the first occurrence
FirstIndex(seq, x) == CHOOSE k \in 1..Len(seq) : seq[k] = x /\ \A j \in 1..(k - 1) : seq[j] # x
ListRemove(seq, x) ==
  LET k == FirstIndex(seq, x)
  IN [j \in 1..(Len(seq) - 1) |-> IF j < k THEN seq[j] ELSE seq[j + 1]]

RECURSIVE SumValues(_)
SumValues(seq) == IF seq = << >> THEN 0 ELSE ChipValue(Head(seq)) + SumValues(Tail(seq))

RECURSIVE SelectColor(_, _)
SelectColor(seq, color) ==
  IF seq = << >> THEN << >>
  ELSE IF ChipColor(Head(seq)) = color
       THEN <<Head(seq)>> \o SelectColor(Tail(seq), color)
       ELSE SelectColor(Tail(seq), color)

----------------------------------------------------------------------------
(* Zone-transition actions: actions.py *)

\* i is the value of rng.randrange(len(bag)), plus one
draw_from_bag(S, p, i) ==
  LET S1 == ensure_player(S, p)
      bag == S1.bags[p]
  IN IF bag = << >> THEN Raise(S1)
     ELSE LET cid == bag[i]
          IN Ok([S1 EXCEPT !.bags[p] = SwapPop(bag, i),
                           !.pots[p] = Append(@, cid),
                           !.where[cid] = Loc("pot", p)], cid)

\* draw_from_bag_to_palm putting the chip at the front of the palm
Mutant_draw_from_bag_to_palm(S, p, i) ==
  LET S1 == ensure_player(S, p)
      bag == S1.bags[p]
  IN IF bag = << >> THEN Raise(S1)
     ELSE LET cid == bag[i]
          IN Ok([S1 EXCEPT !.bags[p] = SwapPop(bag, i),
                           !.palms[p] = <<cid>> \o @,
                           !.where[cid] = Loc("palm", p)], cid)

draw_from_bag_to_palm(S, p, i) ==
  LET S1 == ensure_player(S, p)
      bag == S1.bags[p]
  IN IF bag = << >> THEN Raise(S1)
     ELSE LET cid == bag[i]
          IN Ok([S1 EXCEPT !.bags[p] = SwapPop(bag, i),
                           !.palms[p] = Append(@, cid),
                           !.where[cid] = Loc("palm", p)], cid)

\* The outcomes of draw_n_from_bag_to_palm over the random source: the set of
\* results [S, err, ret], ret the chips in draw order.
RECURSIVE DrawLoopPalm(_, _, _, _)
DrawLoopPalm(S, p, n, drawn) ==
  IF n = 0 \/ Len(S.bags[p]) = 0 THEN {Ok(S, drawn)}
  ELSE UNION { LET r == draw_from_bag_to_palm(S, p, i)
               IN DrawLoopPalm(r.S, p, n - 1, Append(drawn, r.ret))
               : i \in 1..Len(S.bags[p]) }

\* draw_n_from_bag_to_palm looping once more than asked
Mutant_draw_n_from_bag_to_palm(S, p, n) == DrawLoopPalm(ensure_player(S, p), p, n + 1, << >>)

draw_n_from_bag_to_palm(S, p, n) == DrawLoopPalm(ensure_player(S, p), p, n, << >>)

\* move_chip_palm_to_pot without the removal from the palm
Mutant_move_chip_palm_to_pot(S, p, cid) ==
  LET S1 == ensure_player(S, p)
  IN IF cid \notin Elems(S1.palms[p]) THEN Raise(S1)
     ELSE Ok([S1 EXCEPT !.pots[p] = Append(@, cid),
                        !.where[cid] = Loc("pot", p)], << >>)

move_chip_palm_to_pot(S, p, cid) ==
  LET S1 == ensure_player(S, p)
  IN IF cid \notin Elems(S1.palms[p]) THEN Raise(S1)
     ELSE Ok([S1 EXCEPT !.palms[p] = ListRemove(@, cid),
                        !.pots[p] = Append(@, cid),
                        !.where[cid] = Loc("pot", p)], << >>)

\* return_chip_palm_to_bag appending to the bag before the palm is searched
Mutant_return_chip_palm_to_bag(S, p, cid) ==
  LET S1 == ensure_player(S, p)
      S2 == [S1 EXCEPT !.bags[p] = Append(@, cid)]
  IN IF cid \notin Elems(S1.palms[p]) THEN Raise(S2)
     ELSE Ok([S2 EXCEPT !.palms[p] = ListRemove(@, cid),
                        !.where[cid] = Loc("bag", p)], << >>)

return_chip_palm_to_bag(S, p, cid) ==
  LET S1 == ensure_player(S, p)
  IN IF cid \notin Elems(S1.palms[p]) THEN Raise(S1)
     ELSE Ok([S1 EXCEPT !.palms[p] = ListRemove(@, cid),
                        !.bags[p] = Append(@, cid),
                        !.where[cid] = Loc("bag", p)], << >>)

\* for cid in returned: bags.append(cid); where[cid] = bag
RECURSIVE AppendAllToBag(_, _, _)
AppendAllToBag(S, p, returned) ==
  IF returned = << >> THEN S
  ELSE AppendAllToBag([S EXCEPT !.bags[p] = Append(@, Head(returned)),
                                !.where[Head(returned)] = Loc("bag", p)],
                      p, Tail(returned))

\* the flush leaving the palm as it is
Mutant_return_all_palm_to_bag(S, p) == Ok(ensure_player(S, p), << >>)

return_all_palm_to_bag(S, p) ==
  LET S1 == ensure_player(S, p)
      palm == S1.palms[p]
  IN IF palm = << >> THEN Ok(S1, << >>)
     ELSE Ok([AppendAllToBag(S1, p, palm) EXCEPT !.palms[p] = << >>], palm)

\* move_chip_palm_to_desktop without the update of the where index
Mutant_move_chip_palm_to_desktop(S, p, cid) ==
  LET S1 == ensure_player(S, p)
  IN IF cid \notin Elems(S1.palms[p]) THEN Raise(S1)
     ELSE Ok([S1 EXCEPT !.palms[p] = ListRemove(@, cid),
                        !.desktops[p] = Append(@, cid)], << >>)

move_chip_palm_to_desktop(S, p, cid) ==
  LET S1 == ensure_player(S, p)
  IN IF cid \notin Elems(S1.palms[p]) THEN Raise(S1)
     ELSE Ok([S1 EXCEPT !.palms[p] = ListRemove(@, cid),
                        !.desktops[p] = Append(@, cid),
                        !.where[cid] = Loc("desktop", p)], << >>)

move_chip_desktop_to_bag(S, p, cid) ==
  LET S1 == ensure_player(S, p)
  IN IF cid \notin Elems(S1.desktops[p]) THEN Raise(S1)
     ELSE Ok([S1 EXCEPT !.desktops[p] = ListRemove(@, cid),
                        !.bags[p] = Append(@, cid),
                        !.where[cid] = Loc("bag", p)], << >>)

move_chip_desktop_to_pot(S, p, cid) ==
  LET S1 == ensure_player(S, p)
  IN IF cid \notin Elems(S1.desktops[p]) THEN Raise(S1)
     ELSE Ok([S1 EXCEPT !.desktops[p] = ListRemove(@, cid),
                        !.pots[p] = Append(@, cid),
                        !.where[cid] = Loc("pot", p)], << >>)

return_chip_from_pot_to_bag(S, p, cid) ==
  LET S1 == ensure_player(S, p)
  IN IF cid \notin Elems(S1.pots[p]) THEN Raise(S1)
     ELSE Ok([S1 EXCEPT !.pots[p] = ListRemove(@, cid),
                        !.bags[p] = Append(@, cid),
                        !.where[cid] = Loc("bag", p)], << >>)

\* return_all_pot_to_bag leaving the pot as it is
Mutant_return_all_pot_to_bag(S, p) == Ok(ensure_player(S, p), << >>)

return_all_pot_to_bag(S, p) ==
  LET S1 == ensure_player(S, p)
      pot == S1.pots[p]
  IN IF pot = << >> THEN Ok(S1, << >>)
     ELSE Ok([AppendAllToBag(S1, p, pot) EXCEPT !.pots[p] = << >>], pot)

\* (gray_sum, total_sum); the call itself runs ensure_player
pot_sums(S, p) ==
  LET pot == ensure_player(S, p).pots[p]
  IN <<SumValues(SelectColor(pot, "gray")), SumValues(pot)>>

\* take_any_chip_of_color_from_box_to_bag falling back to the first chip of the
\* box when no chip has the color
Mutant_take_any_chip_of_color_from_box_to_bag(S, p, color) ==
  LET S1 == ensure_player(S, p)
      match == {cid \in S1.box : ChipColor(cid) = color}
      from == IF match = {} THEN S1.box ELSE match
  IN IF from = {} THEN Raise(S1)
     ELSE LET cid == MinChip(from)
          IN Ok([S1 EXCEPT !.box = @ \ {cid},
                           !.bags[p] = Append(@, cid),
                           !.where[cid] = Loc("bag", p)], cid)

take_any_chip_of_color_from_box_to_bag(S, p, color) ==
  LET S1 == ensure_player(S, p)
      match == {cid \in S1.box : ChipColor(cid) = color}
  IN IF match = {} THEN Raise(S1)
     ELSE LET cid == MinChip(match)
          IN Ok([S1 EXCEPT !.box = @ \ {cid},
                           !.bags[p] = Append(@, cid),
                           !.where[cid] = Loc("bag", p)], cid)

----------------------------------------------------------------------------
(* Game setup: setup.py *)

\* sorted list of the box chips of one type, as a set: the `need` lowest
RECURSIVE LowestN(_, _)
LowestN(set, n) ==
  IF n = 0 \/ set = {} THEN << >>
  ELSE <<MinChip(set)>> \o LowestN(set \ {MinChip(set)}, n - 1)

RECURSIVE BoxToBagAll(_, _, _)
BoxToBagAll(S, p, cids) ==
  IF cids = << >> THEN S
  ELSE BoxToBagAll([S EXCEPT !.box = @ \ {Head(cids)},
                             !.bags[p] = Append(@, Head(cids)),
                             !.where[Head(cids)] = Loc("bag", p)],
                   p, Tail(cids))

\* subset: the items of the dict {(color, value): count} in dict order, as
\* <<color, value, count>>.  box_by_type is indexed once, before any move;
\* the keys of a dict are distinct, so each type's list is the box's.
RECURSIVE GiveLoop(_, _, _)
GiveLoop(S, p, subset) ==
  IF subset = << >> THEN Ok(S, << >>)
  ELSE LET e == Head(subset)
           available == {cid \in S.box : chips[cid].type_id = type_id(e[1], e[2])}
       IN IF Cardinality(available) < e[3] THEN Raise(S)
          ELSE GiveLoop(BoxToBagAll(S, p, LowestN(available, e[3])), p, Tail(subset))

give_player_bag_subset(S, p, subset) == GiveLoop(ensure_player(S, p), p, subset)

apply_player_defaults(S, p, start_rubies, droplet_pos, potion_filled) ==
  [ensure_player(S, p) EXCEPT !.players[p] =
      [coins |-> 0, victory_points |-> 0, rubies |-> start_rubies,
       droplet_pos |-> droplet_pos, potion_filled |-> potion_filled]]

\* droplet_pos_by_player: [pid -> position]; droplet_pos_by_player.get(pid, 0)
RECURSIVE setup_players_base(_, _, _, _)
setup_players_base(S, pids, start_rubies, droplet_pos_by_player) ==
  IF pids = << >> THEN S
  ELSE LET pid == Head(pids)
           droplet_pos == IF pid \in DOMAIN droplet_pos_by_player
                          THEN droplet_pos_by_player[pid] ELSE 0
       IN setup_players_base(apply_player_defaults(S, pid, start_rubies, droplet_pos, TRUE),
                             Tail(pids), start_rubies, droplet_pos_by_player)

\* bag_by_player: [pid -> subset]; an empty subset is skipped
RECURSIVE setup_players_with_arbitrary_bags(_, _, _)
setup_players_with_arbitrary_bags(S, pids, bag_by_player) ==
  IF pids = << >> THEN Ok(S, << >>)
  ELSE LET p == Head(pids)
           S1 == ensure_player(S, p)
           r == IF p \in DOMAIN bag_by_player /\ bag_by_player[p] # << >>
                THEN give_player_bag_subset(S1, p, bag_by_player[p])
                ELSE Ok(S1, << >>)
       IN IF r.err THEN r
          ELSE setup_players_with_arbitrary_bags(r.S, Tail(pids), bag_by_player)

setup_new_game(S, start_rubies, droplet_pos_by_player, bag_by_player) ==
  setup_players_with_arbitrary_bags(
      setup_players_base(S, player_ids, start_rubies, droplet_pos_by_player),
      player_ids, bag_by_player)

----------------------------------------------------------------------------
(* State plumbing *)

Cur == [box |-> box, bags |-> bags, palms |-> palms, desktops |-> desktops,
        pots |-> pots, where |-> where, players |-> players]

SetChipState(S) ==
  /\ box' = S.box
  /\ bags' = S.bags
  /\ palms' = S.palms
  /\ desktops' = S.desktops
  /\ pots' = S.pots
  /\ where' = S.where
  /\ players' = S.players

NoCall == [op |-> "none", p |-> None, err |-> FALSE, ret |-> << >>]

\* no step recorded
NoInput == [act |-> "none", args |-> << >>]

\* no step is replayed
TwinOff == [mode |-> "off", pre |-> << >>, post |-> << >>, want |-> NoInput]

\* what a step consumed from the players (input) and from the injected
\* generator (rng): recorded while steps are replayed
Label(act, args) == IF twin.mode = "off" THEN NoInput ELSE [act |-> act, args |-> args]

\* no chip committed in the drawing loop yet
NoCommits == [bag0 |-> 0, cids |-> << >>, undone |-> 0, offers |-> 0, flushed |-> 0,
              exhausted |-> FALSE, logged |-> << >>]

\* no request served by the web layer yet
NoRequest == [op |-> "none", pid |-> None]

\* GameSession(game_id, join_code): the fields as the dataclass constructs
\* them. Of the log only the latest entry is kept.
NoSession == [players |-> {}, round_idx |-> 1, phase_idx |-> 0, current_pid |-> 0,
              log |-> "", state |-> << >>, last |-> NoRequest]

\* no call of confirm_all_players in progress
NoGate == [pc |-> "idle", player_ids |-> << >>, i |-> 0, acked |-> << >>,
           answers |-> 0, last |-> "None"]
Called(op, p, r) == [op |-> op, p |-> p, err |-> r.err, ret |-> r.ret]

\* chips a player holds in bag, palm and pot (0 for a player without containers)
Holding(S, p) ==
  IF p \in DOMAIN S.bags THEN Len(S.bags[p]) + Len(S.palms[p]) + Len(S.pots[p]) ELSE 0

\* the chip instances of the pool in play
PoolChips == DOMAIN where

----------------------------------------------------------------------------
(* Action-level specification: the actions of actions.py and setup.py called *)
(* directly, in any order, on a pool.                                        *)

\* bag recipes used by the direct calls
ActionBags == (0 :> << <<"gray", 1, 1>>, <<"yellow", 1, 1>> >>) @@ (1 :> << <<"gray", 2, 1>> >>)
GiveRecipes == { << <<"purple", 1, 1>> >>, << <<"purple", 1, 1>>, <<"orange", 1, 1>> >> }
TakeColors == {"purple", "orange"}

\* the engine before run_game is called
InitEngineIdle ==
  /\ event_deck = << >> /\ event_discard = << >>
  /\ current_event = "None" /\ active_blue_event = "None" /\ public_log = << >>
  /\ round_ctx = << >>
  /\ pc = "api" /\ round_no = 0 /\ rounds = 0 /\ phase_idx = 0
  /\ draw_i = 0 /\ exploded = FALSE /\ pos_last = 0 /\ results = << >> /\ eff_limit = 0
  /\ invoked = << >> /\ gates = << >> /\ crashed_in = "None"
  /\ round_start = << >> /\ granted = << >> /\ potion_spent = << >> /\ commits = NoCommits /\ audit = {}
  /\ gate = NoGate /\ inp = NoInput /\ twin = TwinOff

InitDriverIdle == InitEngineIdle /\ sess = NoSession

InitChipState(S) ==
  /\ box = S.box /\ bags = S.bags /\ palms = S.palms /\ desktops = S.desktops
  /\ pots = S.pots /\ where = S.where /\ players = S.players

InitActions ==
  /\ InitChipState(build_pool(CALL_CHIPS))
  /\ call = NoCall
  /\ InitDriverIdle

Direct(op, p, r) ==
  /\ pc = "api"
  /\ SetChipState(r.S)
  /\ call' = Called(op, p, r)
  /\ UNCHANGED <<eventVars, round_ctx, driverVars, drawVars, histVars, gate, inp, twin, sess>>

CallSetupNewGame ==
  /\ call.op = "none"
  /\ Direct("setup_new_game", None, setup_new_game(Cur, 1, << >>, ActionBags))

CallGive ==
  \E p \in PlayerIds, subset \in GiveRecipes :
    Direct("give_player_bag_subset", p, give_player_bag_subset(Cur, p, subset))

CallTake ==
  \E p \in PlayerIds, color \in TakeColors :
    Direct("take_any_chip_of_color_from_box_to_bag", p,
           take_any_chip_of_color_from_box_to_bag(Cur, p, color))

\* rng.randrange(len(bag)) + 1; the call raises before the rng is used when the bag is empty
RandIndex(p) == IF p \in DOMAIN bags /\ bags[p] # << >> THEN 1..Len(bags[p]) ELSE {1}

CallDrawFromBag ==
  \E p \in PlayerIds : \E i \in RandIndex(p) :
    Direct("draw_from_bag", p, draw_from_bag(Cur, p, i))

CallDrawFromBagToPalm ==
  \E p \in PlayerIds : \E i \in RandIndex(p) :
    Direct("draw_from_bag_to_palm", p, draw_from_bag_to_palm(Cur, p, i))

CallDrawNToPalm ==
  \E p \in PlayerIds, n \in 0..MaxPalmDraw :
    \E r \in draw_n_from_bag_to_palm(Cur, p, n) :
      Direct("draw_n_from_bag_to_palm", p, r)

CallMovePalmToPot ==
  \E p \in PlayerIds, cid \in PoolChips :
    Direct("move_chip_palm_to_pot", p, move_chip_palm_to_pot(Cur, p, cid))

CallReturnPalmToBag ==
  \E p \in PlayerIds, cid \in PoolChips :
    Direct("return_chip_palm_to_bag", p, return_chip_palm_to_bag(Cur, p, cid))

CallReturnAllPalm ==
  \E p \in PlayerIds :
    Direct("return_all_palm_to_bag", p, return_all_palm_to_bag(Cur, p))

CallMovePalmToDesktop ==
  \E p \in PlayerIds, cid \in PoolChips :
    Direct("move_chip_palm_to_desktop", p, move_chip_palm_to_desktop(Cur, p, cid))

CallMoveDesktopToBag ==
  \E p \in PlayerIds, cid \in PoolChips :
    Direct("move_chip_desktop_to_bag", p, move_chip_desktop_to_bag(Cur, p, cid))

CallMoveDesktopToPot ==
  \E p \in PlayerIds, cid \in PoolChips :
    Direct("move_chip_desktop_to_pot", p, move_chip_desktop_to_pot(Cur, p, cid))

CallReturnPotToBag ==
  \E p \in PlayerIds, cid \in PoolChips :
    Direct("return_chip_from_pot_to_bag", p, return_chip_from_pot_to_bag(Cur, p, cid))

CallReturnAllPot ==
  \E p \in PlayerIds :
    Direct("return_all_pot_to_bag", p, return_all_pot_to_bag(Cur, p))

NextActions ==
  \/ CallSetupNewGame
  \/ CallGive
  \/ CallTake
  \/ CallDrawFromBag
  \/ CallDrawFromBagToPalm
  \/ CallDrawNToPalm
  \/ CallMovePalmToPot
  \/ CallReturnPalmToBag
  \/ CallReturnAllPalm
  \/ CallMovePalmToDesktop
  \/ CallMoveDesktopToBag
  \/ CallMoveDesktopToPot
  \/ CallReturnPotToBag
  \/ CallReturnAllPot

SpecActions == InitActions /\ [][NextActions]_vars

\* the calls that take from the box, on a pool with two chips of one color
InitSupply ==
  /\ InitChipState(build_pool(SUPPLY_CHIPS))
  /\ call = NoCall
  /\ InitDriverIdle

SpecSupply == InitSupply /\ [][CallTake]_vars

----------------------------------------------------------------------------
(* Board: board.py *)

BOARD_FIELDS == <<
  [coins |-> 0, victory_points |-> 0, ruby |-> FALSE], [coins |-> 0, victory_points |-> 0, ruby |-> FALSE],
  [coins |-> 0, victory_points |-> 0, ruby |-> FALSE], [coins |-> 0, victory_points |-> 0, ruby |-> FALSE],
  [coins |-> 0, victory_points |-> 0, ruby |-> FALSE], [coins |-> 0, victory_points |-> 0, ruby |-> TRUE],
  [coins |-> 6, victory_points |-> 1, ruby |-> FALSE], [coins |-> 7, victory_points |-> 1, ruby |-> FALSE],
  [coins |-> 8, victory_points |-> 1, ruby |-> FALSE], [coins |-> 9, victory_points |-> 1, ruby |-> TRUE],
  [coins |-> 10, victory_points |-> 2, ruby |-> FALSE], [coins |-> 11, victory_points |-> 2, ruby |-> FALSE],
  [coins |-> 12, victory_points |-> 2, ruby |-> FALSE], [coins |-> 13, victory_points |-> 2, ruby |-> TRUE],
  [coins |-> 14, victory_points |-> 3, ruby |-> FALSE], [coins |-> 15, victory_points |-> 3, ruby |-> FALSE],
  [coins |-> 15, victory_points |-> 3, ruby |-> TRUE], [coins |-> 16, victory_points |-> 3, ruby |-> FALSE],
  [coins |-> 16, victory_points |-> 4, ruby |-> FALSE], [coins |-> 17, victory_points |-> 4, ruby |-> FALSE],
  [coins |-> 17, victory_points |-> 4, ruby |-> TRUE], [coins |-> 18, victory_points |-> 4, ruby |-> FALSE],
  [coins |-> 18, victory_points |-> 5, ruby |-> FALSE], [coins |-> 19, victory_points |-> 5, ruby |-> FALSE],
  [coins |-> 19, victory_points |-> 5, ruby |-> TRUE], [coins |-> 20, victory_points |-> 5, ruby |-> FALSE],
  [coins |-> 20, victory_points |-> 6, ruby |-> FALSE], [coins |-> 21, victory_points |-> 6, ruby |-> FALSE],
  [coins |-> 21, victory_points |-> 6, ruby |-> TRUE], [coins |-> 22, victory_points |-> 7, ruby |-> FALSE],
  [coins |-> 22, victory_points |-> 7, ruby |-> TRUE], [coins |-> 23, victory_points |-> 7, ruby |-> FALSE],
  [coins |-> 23, victory_points |-> 8, ruby |-> FALSE], [coins |-> 24, victory_points |-> 8, ruby |-> FALSE],
  [coins |-> 24, victory_points |-> 8, ruby |-> TRUE], [coins |-> 25, victory_points |-> 9, ruby |-> FALSE],
  [coins |-> 25, victory_points |-> 9, ruby |-> TRUE], [coins |-> 26, victory_points |-> 9, ruby |-> FALSE],
  [coins |-> 26, victory_points |-> 10, ruby |-> FALSE], [coins |-> 27, victory_points |-> 10, ruby |-> FALSE],
  [coins |-> 27, victory_points |-> 10, ruby |-> TRUE], [coins |-> 28, victory_points |-> 11, ruby |-> FALSE],
  [coins |-> 28, victory_points |-> 11, ruby |-> TRUE], [coins |-> 29, victory_points |-> 11, ruby |-> FALSE],
  [coins |-> 29, victory_points |-> 12, ruby |-> FALSE], [coins |-> 30, victory_points |-> 12, ruby |-> FALSE],
  [coins |-> 30, victory_points |-> 12, ruby |-> TRUE], [coins |-> 31, victory_points |-> 12, ruby |-> FALSE],
  [coins |-> 31, victory_points |-> 13, ruby |-> FALSE], [coins |-> 32, victory_points |-> 13, ruby |-> FALSE],
  [coins |-> 32, victory_points |-> 13, ruby |-> TRUE], [coins |-> 33, victory_points |-> 14, ruby |-> FALSE],
  [coins |-> 33, victory_points |-> 14, ruby |-> TRUE], [coins |-> 33, victory_points |-> 15, ruby |-> FALSE] >>

\* phase_drawing.landing_rewards_for_position: <<coins, vp, ruby, landing_index>>
landing_rewards_for_position(pos) ==
  LET landing_index == IF BOARD_FIELDS = << >> THEN pos
                       ELSE IF pos < 0 THEN 0
                       ELSE IF pos >= Len(BOARD_FIELDS) THEN Len(BOARD_FIELDS) - 1
                       ELSE pos
  IN IF BOARD_FIELDS = << >> THEN <<0, 0, FALSE, landing_index>>
     ELSE LET f == BOARD_FIELDS[landing_index + 1]
          IN <<f.coins, f.victory_points, f.ruby, landing_index>>

----------------------------------------------------------------------------
(* Event cards: event_cards.py and the dispatch tables of rounds.py *)

\* deck entry -> card record.  EV12..EV14 are the deck the program ships; the
\* other records are the deck entries the source keeps commented out, which
\* the dispatch tables of rounds.py name.  EV14b is a blue card with the
\* card_id "EV14", the id under which BLUE_RUBIES_RULES registers its
\* override; event_cards.py has no entry of that id and color.
EVENT_CARDS ==
  [id \in {"EV02", "EV12", "EV13", "EV14", "EV14b", "EV15", "EV20", "EV23"} |->
     CASE id = "EV02" -> [card_id |-> id, color |-> "purple", scope |-> "global"]
       [] id = "EV14b" -> [card_id |-> "EV14", color |-> "blue", scope |-> "None"]
       [] id = "EV12" -> [card_id |-> id, color |-> "purple", scope |-> "global"]
       [] id = "EV13" -> [card_id |-> id, color |-> "purple", scope |-> "per_player"]
       [] id = "EV14" -> [card_id |-> id, color |-> "purple", scope |-> "per_player"]
       [] id = "EV15" -> [card_id |-> id, color |-> "blue", scope |-> "None"]
       [] id = "EV20" -> [card_id |-> id, color |-> "blue", scope |-> "None"]
       [] id = "EV23" -> [card_id |-> id, color |-> "blue", scope |-> "None"]]

EVENT_DECK == <<"EV12", "EV13", "EV14">>

PURPLE_EFFECTS == {"EV12", "EV13", "EV14"}
BLUE_DRAW_RULES == {"EV20"}
BLUE_RUBIES_RULES == {"EV14"}
BLUE_SCORE_RULES == {"EV23"}

\* the active blue card, or "None"
get_active_blue_card(active) ==
  IF active = "None" THEN "None"
  ELSE IF EVENT_CARDS[active].color # "blue" THEN "None"
  ELSE active

\* card.get("card_id") of a card or of None
card_id_of(card) == IF card = "None" THEN "None" ELSE EVENT_CARDS[card].card_id

\* _blue_draw_ev20_living_in_luxury
blue_draw_ev20 == 9

\* the draw rule of EV20 applied for every active blue card
Mutant_apply_blue_draw_rule(active, default_gray_limit) ==
  IF get_active_blue_card(active) = "None" THEN default_gray_limit ELSE blue_draw_ev20

apply_blue_draw_rule(active, default_gray_limit) ==
  LET card == get_active_blue_card(active)
  IN IF card = "None" THEN default_gray_limit
     ELSE IF card_id_of(card) \notin BLUE_DRAW_RULES THEN default_gray_limit
     ELSE blue_draw_ev20

apply_blue_rubies_rule(active, base_ruby_gain, landed_on_ruby) ==
  LET card == get_active_blue_card(active)
  IN IF card = "None" THEN base_ruby_gain
     ELSE IF card_id_of(card) \notin BLUE_RUBIES_RULES THEN base_ruby_gain
     ELSE IF landed_on_ruby THEN base_ruby_gain + 1 ELSE base_ruby_gain

\* <<coins, vp>>
apply_blue_score_rule(active, add_coins, add_vp, landed_on_ruby) ==
  LET card == get_active_blue_card(active)
  IN IF card = "None" THEN <<add_coins, add_vp>>
     ELSE IF card_id_of(card) \notin BLUE_SCORE_RULES THEN <<add_coins, add_vp>>
     ELSE <<add_coins, add_vp + (IF landed_on_ruby THEN 2 ELSE 0)>>

\* the card read at idx without being removed
Mutant_PopAt(seq, idx) == seq

\* list.pop(idx), idx 1-based
PopAt(seq, idx) == [j \in 1..(Len(seq) - 1) |-> IF j < idx THEN seq[j] ELSE seq[j + 1]]

\* _purple_ev12_alms
purple_ev12_alms(S, pids) ==
  LET min_r == CHOOSE r \in {S.players[p].rubies : p \in Elems(pids)} :
                 \A p \in Elems(pids) : r <= S.players[p].rubies
  IN [S EXCEPT !.players = [p \in DOMAIN S.players |->
        IF p \in Elems(pids) /\ S.players[p].rubies = min_r
        THEN [S.players[p] EXCEPT !.rubies = @ + 1]
        ELSE S.players[p]]]

\* _purple_ev13_14_choose_wisely: choice[p] is "d" or "p".  Result
\* [S, err, ret]; ret is the sequence of players who took a purple chip.
RECURSIVE purple_ev13_14_choose_wisely(_, _, _, _)
purple_ev13_14_choose_wisely(S, pids, choice, took) ==
  IF pids = << >> THEN Ok(S, took)
  ELSE LET p == Head(pids)
       IN IF choice[p] = "d"
          THEN purple_ev13_14_choose_wisely(
                 [S EXCEPT !.players[p].droplet_pos = @ + 2], Tail(pids), choice, took)
          ELSE LET r == take_any_chip_of_color_from_box_to_bag(S, p, "purple")
               IN IF r.err THEN [S |-> r.S, err |-> TRUE, ret |-> took]
                  ELSE purple_ev13_14_choose_wisely(r.S, Tail(pids), choice, Append(took, p))

\* an entry of the public log written by execute_purple_event_now
LogEntry(text, card_id) == <<"[PURPLE EVENT]", text, card_id>>

\* the card skipped without a word in the log
Mutant_execute_purple_event_now(S, card, pids, choice) ==
  [S |-> S, err |-> FALSE, ret |-> << >>, log |-> << >>]

\* execute_purple_event_now: the result [S, err, ret] of the handler and the
\* entries broadcast to the public log
execute_purple_event_now(S, card, pids, choice) ==
  LET card_id == card_id_of(card)
      executing == <<LogEntry("Executing", card_id)>>
  IN IF card_id \notin PURPLE_EFFECTS
     THEN [S |-> S, err |-> FALSE, ret |-> << >>,
           log |-> executing \o <<LogEntry("No implementation registered", card_id),
                                  LogEntry("Completed (stub)", card_id)>>]
     ELSE LET r == IF card_id = "EV12" THEN Ok(purple_ev12_alms(S, pids), << >>)
                   ELSE purple_ev13_14_choose_wisely(S, pids, choice, << >>)
          IN [S |-> r.S, err |-> r.err, ret |-> r.ret,
              log |-> IF r.err THEN executing
                      ELSE executing \o <<LogEntry("Completed execution", card_id)>>]

----------------------------------------------------------------------------
(* Chip policies: the step rule phase_drawing calls, and chip_policies.py *)

\* the count taking every chip of the pot for one of the color
Mutant_count_color_in_pot(S, p, color) == Len(S.pots[p])

count_color_in_pot(S, p, color) == Len(SelectColor(S.pots[p], color))

\* every chip advancing the tracker by one field
Mutant_effective_placement_step(S, p, cid) == 1

\* rounds.effective_placement_step (defined after the import, so it is the
\* one phase_drawing calls)
effective_placement_step(S, p, cid) ==
  LET base == ChipValue(cid)
  IN IF ChipColor(cid) = "red" THEN base + count_color_in_pot(S, p, "orange") ELSE base

\* a direct call of rounds.effective_placement_step: count_color_in_pot reads
\* state["pots"][pid] without ensure_player, a KeyError for an id that has no
\* containers; the state is not changed
rounds_effective_placement_step(S, p, cid) ==
  IF ChipColor(cid) = "red" /\ p \notin DOMAIN S.pots
  THEN Raise(S)
  ELSE Ok(S, effective_placement_step(S, p, cid))

\* chip_policies.effective_placement_step with PLACEMENT_STEP_RULES
PLACEMENT_STEP_RULES == {"red"}
policy_effective_placement_step(S, p, cid) ==
  LET S1 == ensure_player(S, p)
  IN IF ChipColor(cid) \in PLACEMENT_STEP_RULES
     THEN ChipValue(cid) + count_color_in_pot(S1, p, "orange")
     ELSE ChipValue(cid)

\* does _on_place_yellow_may_remove_prev_gray reach its prompt?
YellowPrompt(S, p) ==
  /\ Len(S.pots[p]) >= 2
  /\ ChipColor(S.pots[p][Len(S.pots[p]) - 1]) = "gray"

\* the yellow rule taking the yellow chip itself back to the bag
Mutant_on_place_yellow_may_remove_prev_gray(S, p, yn) ==
  IF YellowPrompt(S, p) /\ yn
  THEN return_chip_from_pot_to_bag(S, p, S.pots[p][Len(S.pots[p])]).S
  ELSE S

on_place_yellow_may_remove_prev_gray(S, p, yn) ==
  IF YellowPrompt(S, p) /\ yn
  THEN return_chip_from_pot_to_bag(S, p, S.pots[p][Len(S.pots[p]) - 1]).S
  ELSE S

\* the colors with an entry in ON_PLACE_RULES
ON_PLACE_RULES == {"yellow", "blue"}

\* ON_PLACE_RULES: yellow -> the handler above, blue -> a stub that returns
apply_on_place_effects(S, p, cid, yn) ==
  LET S1 == ensure_player(S, p)
  IN IF ChipColor(cid) = "yellow" THEN on_place_yellow_may_remove_prev_gray(S1, p, yn)
     ELSE S1

\* the two implementations of the placement step called one after the other
\* with the same arguments, on a pool with a red chip and two orange chips
\* that direct calls move from the box to bags and pots
StepColors == {"red", "orange"}

CallTakeStepColor ==
  \E p \in PlayerIds, color \in StepColors :
    Direct("take_any_chip_of_color_from_box_to_bag", p,
           take_any_chip_of_color_from_box_to_bag(Cur, p, color))

CallPlacementStep ==
  \E p \in PlayerIds, cid \in PoolChips :
    LET a == rounds_effective_placement_step(Cur, p, cid)
        b == policy_effective_placement_step(Cur, p, cid)
    IN Direct("effective_placement_step", p,
              [S |-> ensure_player(a.S, p), err |-> a.err,
               ret |-> [cid |-> cid, registered |-> p \in DOMAIN pots,
                        oranges |-> IF p \in DOMAIN pots
                                    THEN Len(SelectColor(pots[p], "orange")) ELSE 0,
                        rounds |-> a.ret, policy |-> b]])

InitStep ==
  /\ InitChipState(build_pool(STEP_CHIPS))
  /\ call = NoCall
  /\ InitDriverIdle

NextStep ==
  \/ CallTakeStepColor
  \/ CallDrawFromBag
  \/ CallPlacementStep

SpecStep == InitStep /\ [][NextStep]_vars

----------------------------------------------------------------------------
(* The web session: web/game_manager.py, web/engine_ui.py, web/server.py *)

MaxSessPlayers == 3
MaxSessRounds == 3

PHASES == <<"EVENT", "DRAW", "EVAL", "BUY", "CLEANUP">>

PHASE_COMMANDS ==
  [ph \in {"EVENT", "DRAW", "EVAL", "BUY", "CLEANUP"} |->
     CASE ph = "DRAW" -> {"draw", "stop"}
       [] ph = "BUY" -> {"buy", "skip"}
       [] OTHER -> {"ok"}]

\* the pids a request can carry: the joined ones, ones that join later and
\* one that never joins
WebPids == 0..MaxSessPlayers

\* the texts a request can carry
WebTexts == {"ok", " OK ", "draw", "Stop", "buy", "skip", "hello", "", "  "}

\* str.strip on the texts of WebTexts
strip(text) ==
  CASE text = " OK " -> "OK"
    [] text = "  " -> ""
    [] OTHER -> text

\* str.lower on the stripped texts of WebTexts
lower(text) ==
  CASE text = "OK" -> "ok"
    [] text = "Stop" -> "stop"
    [] OTHER -> text

normalize_cmd(text) == lower(strip(text))

phase_name(s) == PHASES[s.phase_idx + 1]

add_log(s, msg) == [s EXCEPT !.log = msg]

sync_state_from_cursor(s) ==
  [s EXCEPT !.state = [k \in DOMAIN s.state \cup {"round_idx", "phase", "current_pid", "players"} |->
                         CASE k = "round_idx" -> s.round_idx
                           [] k = "phase" -> phase_name(s)
                           [] k = "current_pid" -> s.current_pid
                           [] k = "players" -> s.players
                           [] OTHER -> s.state[k]]]

add_player(s) ==
  LET pid == IF s.players = {} THEN 0
             ELSE (CHOOSE m \in s.players : \A q \in s.players : q <= m) + 1
  IN sync_state_from_cursor(add_log([s EXCEPT !.players = @ \cup {pid}], "Player joined"))

\* sorted(self.players.keys())
RECURSIVE SortedPids(_)
SortedPids(ps) ==
  IF ps = {} THEN << >>
  ELSE LET m == CHOOSE x \in ps : \A q \in ps : x <= q
       IN <<m>> \o SortedPids(ps \ {m})

\* the confirm moving the cursor whoever sent it
Mutant_advance(s, pid) ==
  LET s1 == [s EXCEPT !.phase_idx = @ + 1]
  IN IF s1.phase_idx >= Len(PHASES)
     THEN sync_state_from_cursor(
            add_log([s1 EXCEPT !.phase_idx = 0, !.round_idx = @ + 1], "Round advanced"))
     ELSE sync_state_from_cursor(add_log(s1, "Phase advanced"))

advance(s, pid) ==
  IF pid # s.current_pid THEN add_log(s, "Denied confirm")
  ELSE LET s1 == [s EXCEPT !.phase_idx = @ + 1]
       IN IF s1.phase_idx >= Len(PHASES)
          THEN LET pids == SortedPids(s1.players)
                   \* 0-based, as list.index
                   cur_i == IF s1.current_pid \in s1.players
                            THEN FirstIndex(pids, s1.current_pid) - 1 ELSE 0
                   cur == IF s1.players # {}
                          THEN pids[((cur_i + 1) % Len(pids)) + 1]
                          ELSE s1.current_pid
               IN sync_state_from_cursor(
                    add_log([s1 EXCEPT !.phase_idx = 0, !.round_idx = @ + 1,
                                       !.current_pid = cur], "Round advanced"))
          ELSE sync_state_from_cursor(add_log(s1, "Phase advanced"))

\* engine_ui.apply_text_input: the session it leaves
apply_text_input(s, pid, text) ==
  LET cmd == normalize_cmd(text)
      phase == IF "phase" \in DOMAIN s.state THEN s.state["phase"] ELSE phase_name(s)
      allowed == IF phase \in DOMAIN PHASE_COMMANDS THEN PHASE_COMMANDS[phase] ELSE {"ok"}
  IN IF pid # s.current_pid THEN add_log(s, "Rejected input: not your turn")
     ELSE IF cmd \notin allowed THEN add_log(s, "Rejected input")
     ELSE IF phase = "DRAW" /\ cmd = "draw" THEN add_log(s, "DRAW: draw")
     ELSE advance(add_log(s, "accepted"), pid)

\* GameSession.submit_text
submit_text(s, pid, text) ==
  LET t == strip(text)
  IN IF t = "" THEN sync_state_from_cursor(add_log(s, "Empty input ignored"))
     ELSE IF pid = s.current_pid
          THEN sync_state_from_cursor(advance(add_log(s, "INPUT"), pid))
          ELSE sync_state_from_cursor(add_log(s, "Input stored"))

\* GameManager.create_game: the session with the host joined as pid 0
create_game == sync_state_from_cursor(add_log(add_player(NoSession), "Game created"))

\* the session s after a request, unless the rounds played pass the bound
Served(s, op, pid) ==
  /\ s.round_idx <= MaxSessRounds
  /\ sess' = [s EXCEPT !.last = [op |-> op, pid |-> pid]]
  /\ UNCHANGED <<chipVars, eventVars, round_ctx, driverVars, drawVars, histVars,
                 call, gate, inp, twin>>

\* server.join_game
JoinGame ==
  /\ Cardinality(sess.players) < MaxSessPlayers
  /\ Served(add_player(sess), "join", None)

\* server.post_action with action "confirm"
PostConfirm ==
  \E pid \in WebPids : Served(advance(sess, pid), "confirm", pid)

\* server.post_input: the text route that is registered first
PostInput ==
  \E pid \in WebPids, text \in WebTexts :
    LET t == strip(text)
    IN IF t = "" THEN Served(add_log(sess, "Empty input ignored"), "input", pid)
       ELSE LET s0 == [sess EXCEPT !.state = ("last_input" :> <<pid, t>>) @@ @]
            IN Served(apply_text_input(add_log(s0, "INPUT"), pid, t), "input", pid)

\* a text handed to GameSession.submit_text
SubmitText ==
  \E pid \in WebPids, text \in WebTexts :
    Served(submit_text(sess, pid, text), "submit_text", pid)

InitSession ==
  /\ InitChipState(build_pool({}))
  /\ call = NoCall
  /\ InitEngineIdle
  /\ sess = create_game

NextSession ==
  \/ JoinGame
  \/ PostConfirm
  \/ PostInput
  \/ SubmitText

SpecSession == InitSession /\ [][NextSession]_vars

----------------------------------------------------------------------------
(* Round / game driver: rounds.py *)

ROUND_PHASES == <<"start", "event_card", "rat_tails", "drawing", "winner_and_dice",
                  "chip_eval", "rubies", "vp_and_coins", "purchase", "ruby_trade">>

PHASE_REQUIRES ==
  [ph \in Elems(ROUND_PHASES) |->
     CASE ph = "drawing" -> {"gray_limit"}
       [] ph \in {"winner_and_dice", "rubies", "vp_and_coins"} -> {"drawing_results"}
       [] OTHER -> {}]

\* round_ctx[k] = v
CtxSet(ctx, k, v) == [x \in DOMAIN ctx \cup {k} |-> IF x = k THEN v ELSE ctx[x]]
\* round_ctx.get(k, default)
CtxGet(ctx, k, default) == IF k \in DOMAIN ctx THEN ctx[k] ELSE default

\* the phase the driver's loop is at (phase_idx is 1-based; past the list: "None")
CurPhase == IF phase_idx \in 1..Len(ROUND_PHASES) THEN ROUND_PHASES[phase_idx] ELSE "None"

\* the check passing whatever round_ctx holds
Mutant_PrereqOk(ph) == TRUE

\* run_round's check before the call of a phase
PrereqOk(ph) == \A key \in PHASE_REQUIRES[ph] : key \in DOMAIN round_ctx

\* the driver is about to call the handler of phase ph
AtPhase(ph) == pc = "phase" /\ CurPhase = ph /\ PrereqOk(ph)

\* the handler returned to the driver's loop
\* the loop skipping a phase
Mutant_NextPhaseIdx == phase_idx + 2

NextPhaseIdx == phase_idx + 1
Return ==
  /\ pc' = "phase"
  /\ phase_idx' = NextPhaseIdx
  /\ invoked' = Append(invoked, CurPhase)
  /\ gates' = Append(gates, CurPhase)
  /\ UNCHANGED <<round_no, rounds, crashed_in>>

\* an exception left the handler, run_round and run_game
Crash ==
  /\ pc' = "crashed"
  /\ crashed_in' = CurPhase
  /\ invoked' = Append(invoked, CurPhase)
  /\ gates' = gates
  /\ UNCHANGED <<round_no, rounds, phase_idx>>

\* bags given to the players at setup (bag_by_player)
GameBags == (0 :> << <<"gray", 1, 1>>, <<"gray", 2, 1>> >>)
            @@ (1 :> << <<"gray", 2, 1>> >>)

\* the state run_game's loop starts from: build_pool, setup_new_game and the
\* preamble of run_game, for a game of n rounds
InitRun(chips_def, start_rubies, droplet_pos_by_player, bag_by_player, deck, n) ==
  /\ InitChipState(setup_new_game(build_pool(chips_def), start_rubies,
                                  droplet_pos_by_player, bag_by_player).S)
  /\ event_deck = deck /\ event_discard = << >>
  /\ current_event = "None" /\ active_blue_event = "None" /\ public_log = << >>
  /\ round_ctx = << >>
  /\ pc = "run_game" /\ round_no = 0 /\ rounds = n /\ phase_idx = 0
  /\ draw_i = 0 /\ exploded = FALSE /\ pos_last = 0 /\ results = << >> /\ eff_limit = 0
  /\ invoked = << >> /\ gates = << >> /\ crashed_in = "None"
  /\ round_start = [p \in PlayerIds |-> 0] /\ granted = [p \in PlayerIds |-> 0]
  /\ potion_spent = [p \in PlayerIds |-> 0] /\ audit = {}
  /\ commits = NoCommits
  /\ call = NoCall /\ gate = NoGate /\ inp = NoInput /\ twin = TwinOff /\ sess = NoSession

InitGame(chips_def, bag_by_player, deck) ==
  InitRun(chips_def, 1, << >>, bag_by_player, deck, MaxRounds)

Init == InitGame(GAME_CHIPS, GameBags, EVENT_DECK)

\* the round context kept from one round to the next
Mutant_clear_round_ctx(ctx) == ctx

\* state.clear_round_ctx: round_ctx.clear()
clear_round_ctx(ctx) == << >>

\* run_round entering its loop without storing the gray limit
Mutant_StartRound ==
  /\ pc = "run_game"
  /\ inp' = Label("StartRound", << >>)
  /\ round_no < rounds
  /\ round_no' = round_no + 1
  /\ round_ctx' = clear_round_ctx(round_ctx)
  /\ pc' = "phase"
  /\ phase_idx' = 1
  /\ invoked' = << >>
  /\ gates' = << >>
  /\ round_start' = [p \in PlayerIds |-> Holding(Cur, p)]
  /\ granted' = [p \in PlayerIds |-> 0]
  /\ UNCHANGED <<chipVars, eventVars, drawVars, rounds, crashed_in, potion_spent, commits, audit, call, gate, twin, sess>>

\* run_game's loop calls run_round: clear_round_ctx and the gray limit
StartRound ==
  /\ pc = "run_game"
  /\ inp' = Label("StartRound", << >>)
  /\ round_no < rounds
  /\ round_no' = round_no + 1
  /\ round_ctx' = CtxSet(clear_round_ctx(round_ctx), "gray_limit", GrayLimitArg)
  /\ pc' = "phase"
  /\ phase_idx' = 1
  /\ invoked' = << >>
  /\ gates' = << >>
  /\ round_start' = [p \in PlayerIds |-> Holding(Cur, p)]
  /\ granted' = [p \in PlayerIds |-> 0]
  /\ UNCHANGED <<chipVars, eventVars, drawVars, rounds, crashed_in, potion_spent, commits, audit, call, gate, twin, sess>>

\* run_game after the last round: the final standings are broadcast
EndGame ==
  /\ pc = "run_game"
  /\ inp' = Label("EndGame", << >>)
  /\ round_no = rounds
  /\ pc' = "game_over"
  /\ UNCHANGED <<chipVars, eventVars, round_ctx, round_no, rounds, phase_idx, invoked, gates,
                 crashed_in, drawVars, histVars, call, gate, twin, sess>>

phase_start ==
  /\ AtPhase("start")
  /\ inp' = Label("phase_start", << >>)
  /\ current_event' = "None"
  /\ active_blue_event' = "None"
  /\ pc' = "phase"
  /\ phase_idx' = NextPhaseIdx
  /\ invoked' = Append(invoked, CurPhase)
  /\ UNCHANGED <<round_no, rounds, crashed_in, gates>>
  /\ UNCHANGED <<chipVars, event_deck, event_discard, public_log, round_ctx, drawVars,
                 histVars, call, gate, twin, sess>>

\* granted[p] + 1 for each player of took
RECURSIVE CountGrants(_, _)
CountGrants(g, took) ==
  IF took = << >> THEN g
  ELSE CountGrants([g EXCEPT ![Head(took)] = @ + 1], Tail(took))

phase_event_card ==
  /\ AtPhase("event_card")
  /\ IF event_deck = << >>
     THEN /\ current_event' = "None"
          /\ inp' = Label("phase_event_card", <<0, [q \in PlayerIds |-> "d"]>>)
          /\ Return
          /\ UNCHANGED <<chipVars, event_deck, event_discard, active_blue_event, public_log,
                         granted>>
     ELSE \E idx \in 1..Len(event_deck) :
            LET card == event_deck[idx]
                color == EVENT_CARDS[card].color
            IN /\ event_deck' = PopAt(event_deck, idx)
               /\ current_event' = card
               /\ event_discard' = Append(event_discard, card)
               /\ IF color = "purple"
                  THEN \E choice \in (IF card_id_of(card) \in {"EV13", "EV14"}
                                      THEN [PlayerIds -> {"d", "p"}]
                                      ELSE {[q \in PlayerIds |-> "d"]}) :
                         LET r == execute_purple_event_now(Cur, card, player_ids, choice)
                         IN /\ SetChipState(r.S)
                            /\ inp' = Label("phase_event_card", <<idx, choice>>)
                            /\ public_log' = public_log \o r.log
                            /\ granted' = CountGrants(granted, r.ret)
                            /\ UNCHANGED active_blue_event
                            /\ IF r.err THEN Crash ELSE Return
                  ELSE /\ active_blue_event' = (IF color = "blue" THEN card ELSE active_blue_event)
                       /\ inp' = Label("phase_event_card", <<idx, [q \in PlayerIds |-> "d"]>>)
                       /\ Return
                       /\ UNCHANGED <<chipVars, public_log, granted>>
  /\ UNCHANGED <<round_ctx, drawVars, round_start, potion_spent, commits, audit, call, gate, twin, sess>>

phase_rat_tails ==
  /\ AtPhase("rat_tails")
  /\ \E rt \in [PlayerIds -> 0..MaxRatTails] :
       /\ round_ctx' = CtxSet(round_ctx, "rat_tails", rt)
       /\ inp' = Label("phase_rat_tails", rt)
  /\ Return
  /\ UNCHANGED <<chipVars, eventVars, drawVars, histVars, call, gate, twin, sess>>

----------------------------------------------------------------------------
(* phase_drawing *)

\* the player whose drawing loop runs
DrawPid == player_ids[draw_i]

\* the explosion test never firing, and firing at the limit already
Mutant_Explodes_never(gray_sum, limit) == FALSE
Mutant_Explodes_at_limit(gray_sum, limit) == gray_sum >= limit

\* the explosion test of phase_drawing
Explodes(gray_sum, limit) == gray_sum > limit

\* phase_drawing up to the loop over the players
phase_drawing_begin ==
  /\ AtPhase("drawing")
  /\ inp' = Label("phase_drawing_begin", << >>)
  /\ LET gray_limit == CtxGet(round_ctx, "gray_limit", 7)
         c1 == IF "draw_trackers" \in DOMAIN round_ctx THEN round_ctx
               ELSE CtxSet(round_ctx, "draw_trackers", << >>)
         c2 == IF "ev15_first_white_return_used" \in DOMAIN c1 THEN c1
               ELSE CtxSet(c1, "ev15_first_white_return_used", << >>)
     IN /\ round_ctx' = c2
        /\ eff_limit' = apply_blue_draw_rule(active_blue_event, gray_limit)
  /\ results' = << >>
  /\ draw_i' = 1
  /\ exploded' = FALSE
  /\ pos_last' = 0
  /\ pc' = "draw_start"
  /\ UNCHANGED <<chipVars, eventVars, round_no, rounds, phase_idx, invoked, gates, crashed_in,
                 histVars, call, gate, twin, sess>>

\* the head of the loop body: start position and tracker of the next player
draw_player_start ==
  /\ pc = "draw_start"
  /\ inp' = Label("draw_player_start", << >>)
  /\ LET pid == DrawPid
         droplet_pos == players[pid].droplet_pos
         rat_tails == CtxGet(CtxGet(round_ctx, "rat_tails", << >>), pid, 0)
         pos_start == droplet_pos + rat_tails
     IN /\ exploded' = FALSE
        /\ pos_last' = pos_start
        /\ round_ctx' = CtxSet(round_ctx, "draw_trackers",
                           CtxSet(round_ctx["draw_trackers"], pid,
                              [pos_start |-> pos_start, pos_last |-> pos_start,
                               droplet_pos |-> droplet_pos, rat_tails |-> rat_tails]))
  /\ pc' = "draw_ask"
  /\ audit' = {}
  /\ commits' = [NoCommits EXCEPT !.bag0 = Len(bags[DrawPid])]
  /\ UNCHANGED <<chipVars, eventVars, round_no, rounds, phase_idx, invoked, gates, crashed_in,
                 draw_i, results, eff_limit, round_start, granted, potion_spent, call, gate, twin, sess>>

\* a loop ended by the empty bag recorded as an explosion
Mutant_ResultOf(S, pid, expl, pos) ==
  LET sums == pot_sums(S, pid)
      land == landing_rewards_for_position(pos)
      tr == round_ctx["draw_trackers"][pid]
  IN [droplet_pos |-> tr.droplet_pos, rat_tails |-> tr.rat_tails,
      pos_start |-> tr.pos_start, pos_last |-> pos,
      gray_sum |-> sums[1], chip_sum |-> sums[2],
      exploded |-> expl \/ S.bags[pid] = << >>,
      landing_index |-> land[4], landing_coins |-> land[1],
      landing_vp |-> land[2], landing_ruby |-> land[3]]

\* the snapshot stored in results[pid] when the player's loop has ended
ResultOf(S, pid, expl, pos) ==
  LET sums == pot_sums(S, pid)
      land == landing_rewards_for_position(pos)
      tr == round_ctx["draw_trackers"][pid]
  IN [droplet_pos |-> tr.droplet_pos, rat_tails |-> tr.rat_tails,
      pos_start |-> tr.pos_start, pos_last |-> pos,
      gray_sum |-> sums[1], chip_sum |-> sums[2], exploded |-> expl,
      landing_index |-> land[4], landing_coins |-> land[1],
      landing_vp |-> land[2], landing_ruby |-> land[3]]

\* the end of a player's loop: the result snapshot, the palm check, then the
\* next player, or the end of the phase (results stored, handler returns).
\* S is the chip state and ctx the round_ctx the loop has produced.
FinishPlayer(S, ctx, expl, pos) ==
  LET pid == DrawPid
      res == CtxSet(results, pid, ResultOf(S, pid, expl, pos))
      S1 == IF S.palms[pid] # << >> THEN return_all_palm_to_bag(S, pid).S ELSE S
  IN /\ SetChipState(S1)
     /\ IF draw_i < Len(player_ids)
        THEN /\ results' = res
             /\ round_ctx' = ctx
             /\ draw_i' = draw_i + 1
             /\ exploded' = expl
             /\ pos_last' = pos
             /\ pc' = "draw_start"
             /\ UNCHANGED <<phase_idx, invoked, gates, eff_limit>>
        ELSE /\ round_ctx' = CtxSet(ctx, "drawing_results", res)
             /\ results' = << >>
             /\ draw_i' = 0
             /\ exploded' = FALSE
             /\ pos_last' = 0
             /\ eff_limit' = 0
             /\ pc' = "phase"
             /\ phase_idx' = NextPhaseIdx
             /\ invoked' = Append(invoked, CurPhase)
             /\ gates' = Append(gates, CurPhase)
     /\ UNCHANGED <<round_no, rounds, crashed_in>>

\* the palm is flushed when a loop ends with chips left in it
SafetyFlush(S, pid) ==
  IF S.palms[pid] # << >> THEN return_all_palm_to_bag(S, pid).S ELSE S

\* "Continue drawing?" answered no
draw_stop ==
  /\ pc = "draw_ask"
  /\ inp' = Label("draw_stop", << >>)
  /\ FinishPlayer(SafetyFlush(Cur, DrawPid), round_ctx, exploded, pos_last)
  /\ audit' = {}
  /\ UNCHANGED <<eventVars, round_start, granted, potion_spent, commits, call, gate, twin, sess>>

\* "Continue drawing?" answered yes: n_palm chips are drawn to the palm
draw_to_palm ==
  /\ pc = "draw_ask"
  /\ \E n_palm \in 1..MaxPalmDraw :
       \E r \in draw_n_from_bag_to_palm(Cur, DrawPid, n_palm) :
         /\ inp' = Label("draw_to_palm", <<n_palm, r.ret>>)
         /\ IF r.ret = << >>
            THEN /\ FinishPlayer(SafetyFlush(r.S, DrawPid), round_ctx, exploded, pos_last)
                 /\ commits' = [commits EXCEPT !.exhausted = TRUE]
            ELSE /\ SetChipState(r.S)
                 /\ pc' = "draw_palm"
                 /\ UNCHANGED <<round_ctx, round_no, rounds, phase_idx, invoked, gates, crashed_in, drawVars,
                                commits>>
  /\ audit' = {}
  /\ UNCHANGED <<eventVars, round_start, granted, potion_spent, call, gate, twin, sess>>

\* the potion prompt offered whether or not the potion is filled
Mutant_PotionPrompt(S, pid, cid) == ChipColor(cid) = "gray" /\ ~exploded

\* the potion prompt offered for a chip of any color
Mutant_PotionPrompt_any_color(S, pid, cid) == ~exploded /\ S.players[pid].potion_filled

\* is the potion prompt reached for the chip just placed?
PotionPrompt(S, pid, cid) ==
  ChipColor(cid) = "gray" /\ ~exploded /\ S.players[pid].potion_filled

\* the EV15 prompt shown at every gray chip
Mutant_Ev15Prompt(ctx, pid, cid) ==
  /\ card_id_of(get_active_blue_card(active_blue_event)) = "EV15"
  /\ ChipColor(cid) = "gray"

\* is the EV15 prompt reached for the chip just placed?
Ev15Prompt(ctx, pid, cid) ==
  /\ card_id_of(get_active_blue_card(active_blue_event)) = "EV15"
  /\ ChipColor(cid) = "gray"
  /\ ~CtxGet(ctx["ev15_first_white_return_used"], pid, FALSE)

\* the tracker stepping back
Mutant_Advance(pos, step) == pos - step

\* the position tracker after the placement step
Advance(pos, step) == pos + step

\* the public-log entries of a commit that is not undone by potion, from the
\* placement step to the PLACED line: the EV15 return and PLACED. Neither
\* effective_placement_step nor apply_on_place_effects calls broadcast, with
\* or without a rule for the chip's color.
PlacedLog(S, pid, cid, ev15_yes) ==
  (IF ev15_yes THEN <<"EV15 returned">> ELSE << >>) \o <<"PLACED">>

\* the rule toggle read by phase_drawing
allow_return_all(ctx) == CtxGet(ctx, "allow_return_all_from_palm", FALSE)

\* the size of the palm put back to the bag, recorded in the rounds that
\* allow the return of the whole palm
Flushed(palm) == IF allow_return_all(round_ctx) THEN Len(palm) ELSE 0

\* the prompts a player is shown between move_chip_palm_to_pot and the next
\* broadcast: the flush of the rest of the palm is broadcast before the
\* prompts, "POTION USED" and "PLACED" only after them
Unlogged(flushed, potion_asked, ev15_asked, yellow_asked) ==
  IF flushed
  THEN {}
  ELSE (IF potion_asked THEN {"potion"} ELSE {})
       \cup (IF ev15_asked THEN {"ev15"} ELSE {})
       \cup (IF yellow_asked THEN {"yellow"} ELSE {})

\* one chip of the palm is chosen and placed: palm_list[idx] goes to the pot,
\* the rest of the palm back to the bag; then the potion rule, the placement
\* step, the EV15 option, the on-place effects and the explosion check.
draw_place ==
  /\ pc = "draw_palm"
  /\ \E idx \in 1..Len(palms[DrawPid]) :
       LET pid == DrawPid
           placed_cid == palms[pid][idx]
           S1 == move_chip_palm_to_pot(Cur, pid, placed_cid).S
           S2 == IF S1.palms[pid] # << >> THEN return_all_palm_to_bag(S1, pid).S ELSE S1
       IN \E potion_yes \in (IF PotionPrompt(S2, pid, placed_cid) THEN BOOLEAN ELSE {FALSE}) :
            IF potion_yes
            THEN /\ SetChipState([return_chip_from_pot_to_bag(S2, pid, placed_cid).S
                                    EXCEPT !.players[pid].potion_filled = FALSE])
                 /\ potion_spent' = [potion_spent EXCEPT ![pid] = @ + 1]
                 /\ inp' = Label("draw_place", <<idx, TRUE, FALSE, FALSE>>)
                 /\ commits' = [commits EXCEPT !.cids = Append(@, placed_cid), !.undone = @ + 1,
                                               !.flushed = Flushed(S1.palms[pid]),
                                               !.logged = <<"POTION USED">>]
                 /\ audit' = Unlogged(S1.palms[pid] # << >>, TRUE, FALSE, FALSE)
                 /\ pc' = "draw_ask"
                 /\ UNCHANGED <<round_ctx, round_no, rounds, phase_idx, invoked, gates, crashed_in, drawVars>>
            ELSE LET step == effective_placement_step(S2, pid, placed_cid)
                     pos == Advance(pos_last, step)
                     c1 == CtxSet(round_ctx, "draw_trackers",
                             [round_ctx["draw_trackers"] EXCEPT ![pid].pos_last = pos])
                     offer == Ev15Prompt(c1, pid, placed_cid)
                 IN \E ev15_yes \in (IF offer THEN BOOLEAN ELSE {FALSE}) :
                      /\ UNCHANGED potion_spent
                      /\ commits' = [commits EXCEPT !.cids = Append(@, placed_cid),
                                                    !.offers = IF offer THEN @ + 1 ELSE @,
                                                    !.flushed = Flushed(S1.palms[pid]),
                                                    !.logged = PlacedLog(S2, pid, placed_cid, ev15_yes)]
                      /\ LET S3 == IF ev15_yes
                                   THEN return_chip_from_pot_to_bag(S2, pid, placed_cid).S
                                   ELSE S2
                             c2 == IF offer
                                   THEN CtxSet(c1, "ev15_first_white_return_used",
                                          CtxSet(c1["ev15_first_white_return_used"], pid, TRUE))
                                   ELSE c1
                             ask == ChipColor(placed_cid) = "yellow" /\ YellowPrompt(S3, pid)
                         IN \E yellow_yes \in (IF ask THEN BOOLEAN ELSE {FALSE}) :
                              LET S4 == apply_on_place_effects(S3, pid, placed_cid, yellow_yes)
                                  gray_sum == pot_sums(S4, pid)[1]
                              IN /\ inp' = Label("draw_place", <<idx, FALSE, ev15_yes, yellow_yes>>)
                                 /\ audit' = Unlogged(S1.palms[pid] # << >>,
                                            PotionPrompt(S2, pid, placed_cid), offer, ask)
                                 /\ IF Explodes(gray_sum, eff_limit)
                                    THEN FinishPlayer(SafetyFlush(S4, pid), c2, TRUE, pos)
                                    ELSE /\ SetChipState(S4)
                                         /\ round_ctx' = c2
                                         /\ pos_last' = pos
                                         /\ pc' = "draw_ask"
                                         /\ UNCHANGED <<round_no, rounds, phase_idx, invoked, gates, crashed_in,
                                                        draw_i, exploded, results, eff_limit>>
  /\ UNCHANGED <<eventVars, round_start, granted, call, gate, twin, sess>>

\* a rule enables the return of the palm for the round, before the drawing
EnableReturnAll ==
  /\ pc = "phase" /\ CurPhase = "drawing"
  /\ ~allow_return_all(round_ctx)
  /\ round_ctx' = CtxSet(round_ctx, "allow_return_all_from_palm", TRUE)
  /\ UNCHANGED <<chipVars, eventVars, driverVars, drawVars, histVars, call, gate, inp, twin, sess>>

\* the action prompt answered 'r': the whole palm goes back to the bag and the
\* loop continues with the next "Continue drawing?" prompt
draw_return_all ==
  /\ pc = "draw_palm"
  /\ allow_return_all(round_ctx)
  /\ inp' = Label("draw_return_all", << >>)
  /\ SetChipState(return_all_palm_to_bag(Cur, DrawPid).S)
  /\ commits' = [commits EXCEPT !.flushed = Flushed(palms[DrawPid])]
  /\ audit' = {}
  /\ pc' = "draw_ask"
  /\ UNCHANGED <<eventVars, round_ctx, round_no, rounds, phase_idx, invoked, gates, crashed_in,
                 drawVars, round_start, granted, potion_spent, call, gate, twin, sess>>

----------------------------------------------------------------------------
(* the phases after the drawing *)

\* the player furthest ahead wins, exploded or not
Mutant_Winners(res) ==
  LET max_pos == CHOOSE m \in {res[pid].pos_last : pid \in PlayerIds} :
                   \A pid \in PlayerIds : res[pid].pos_last <= m
  IN SelectSeq(player_ids, LAMBDA pid : res[pid].pos_last = max_pos)

\* the winners of the draw phase, in the order of player_ids
Winners(res) ==
  LET not_exploded == {pid \in PlayerIds : ~res[pid].exploded}
      eligible == IF not_exploded = {} THEN PlayerIds ELSE not_exploded
      max_pos == CHOOSE m \in {res[pid].pos_last : pid \in eligible} :
                   \A pid \in eligible : res[pid].pos_last <= m
  IN SelectSeq(player_ids, LAMBDA pid : pid \in eligible /\ res[pid].pos_last = max_pos)

\* the die read from a source outside the injected generator: a second run
\* of the same step sees another face
Mutant_DieEffect(S, pid, roll) ==
  LET face == IF twin.mode = "redo" THEN 7 - roll ELSE roll
  IN CASE face \in {1, 2} -> [S |-> [S EXCEPT !.players[pid].victory_points = @ + 1], took |-> FALSE]
       [] face = 3 -> [S |-> [S EXCEPT !.players[pid].victory_points = @ + 2], took |-> FALSE]
       [] face = 4 -> LET r == take_any_chip_of_color_from_box_to_bag(S, pid, "orange")
                      IN [S |-> r.S, took |-> ~r.err]
       [] face = 5 -> [S |-> [S EXCEPT !.players[pid].rubies = @ + 1], took |-> FALSE]
       [] face = 6 -> [S |-> [S EXCEPT !.players[pid].droplet_pos = @ + 1], took |-> FALSE]

\* the effect of one die face on the winner pid; took: a chip came from the box
DieEffect(S, pid, roll) ==
  CASE roll \in {1, 2} -> [S |-> [S EXCEPT !.players[pid].victory_points = @ + 1], took |-> FALSE]
    [] roll = 3 -> [S |-> [S EXCEPT !.players[pid].victory_points = @ + 2], took |-> FALSE]
    [] roll = 4 -> LET r == take_any_chip_of_color_from_box_to_bag(S, pid, "orange")
                   IN [S |-> r.S, took |-> ~r.err]
    [] roll = 5 -> [S |-> [S EXCEPT !.players[pid].rubies = @ + 1], took |-> FALSE]
    [] roll = 6 -> [S |-> [S EXCEPT !.players[pid].droplet_pos = @ + 1], took |-> FALSE]

\* the loop over the winners; rolls[pid] is what rng.randint(1, 6) gives for pid
RECURSIVE DiceLoop(_, _, _, _, _)
DiceLoop(S, g, dice, ws, rolls) ==
  IF ws = << >> THEN [S |-> S, granted |-> g, dice |-> dice]
  ELSE LET pid == Head(ws)
           e == DieEffect(S, pid, rolls[pid])
       IN DiceLoop(e.S, IF e.took THEN [g EXCEPT ![pid] = @ + 1] ELSE g,
                   CtxSet(dice, pid, [roll |-> rolls[pid]]), Tail(ws), rolls)

phase_winner_and_dice ==
  /\ AtPhase("winner_and_dice")
  /\ LET ws == Winners(round_ctx["drawing_results"])
     IN \E rolls \in [Elems(ws) -> 1..6] :
          LET r == DiceLoop(Cur, granted, CtxGet(round_ctx, "dice_results", << >>), ws, rolls)
          IN /\ SetChipState(r.S)
             /\ inp' = Label("phase_winner_and_dice", rolls)
             /\ granted' = r.granted
             /\ round_ctx' = CtxSet(round_ctx, "dice_results", r.dice)
  /\ Return
  /\ audit' = {}
  /\ commits' = NoCommits
  /\ UNCHANGED <<eventVars, drawVars, round_start, potion_spent, call, gate, twin, sess>>

phase_chip_eval ==
  /\ AtPhase("chip_eval")
  /\ inp' = Label("phase_chip_eval", << >>)
  /\ Return
  /\ UNCHANGED <<chipVars, eventVars, round_ctx, drawVars, histVars, call, gate, twin, sess>>

\* the ruby gain of phase_rubies for a player
RubyGain(res, pid) == IF res[pid].landing_ruby THEN 1 ELSE 0

phase_rubies ==
  /\ AtPhase("rubies")
  /\ inp' = Label("phase_rubies", << >>)
  /\ LET res == round_ctx["drawing_results"]
     IN players' = [pid \in DOMAIN players |->
                      IF pid \in PlayerIds
                      THEN [players[pid] EXCEPT !.rubies = @ + RubyGain(res, pid)]
                      ELSE players[pid]]
  /\ Return
  /\ UNCHANGED <<box, bags, palms, desktops, pots, where, eventVars, round_ctx,
                 drawVars, histVars, call, gate, twin, sess>>

phase_vp_and_coins ==
  /\ AtPhase("vp_and_coins")
  /\ inp' = Label("phase_vp_and_coins", << >>)
  /\ LET res == round_ctx["drawing_results"]
         add(pid) == apply_blue_score_rule(active_blue_event, res[pid].landing_coins,
                                           res[pid].landing_vp, res[pid].landing_ruby)
     IN players' = [pid \in DOMAIN players |->
                      IF pid \in PlayerIds
                      THEN [players[pid] EXCEPT !.coins = @ + add(pid)[1],
                                                !.victory_points = @ + add(pid)[2]]
                      ELSE players[pid]]
  /\ Return
  /\ UNCHANGED <<box, bags, palms, desktops, pots, where, eventVars, round_ctx,
                 drawVars, histVars, call, gate, twin, sess>>

phase_purchase ==
  /\ AtPhase("purchase")
  /\ inp' = Label("phase_purchase", << >>)
  /\ Return
  /\ UNCHANGED <<chipVars, eventVars, round_ctx, drawVars, histVars, call, gate, twin, sess>>

\* the trade loop going on with a single ruby in hand
RECURSIVE Mutant_TradeOutcomes(_)
Mutant_TradeOutcomes(pl) ==
  IF pl.rubies < 1 THEN {pl}
  ELSE {pl}
       \cup Mutant_TradeOutcomes([pl EXCEPT !.rubies = @ - RUBY_COST, !.droplet_pos = @ + 1])
       \cup (IF pl.potion_filled THEN {}
             ELSE Mutant_TradeOutcomes([pl EXCEPT !.rubies = @ - RUBY_COST,
                                                  !.potion_filled = TRUE]))

\* what a player's record can be when the player's trade loop ends
RECURSIVE TradeOutcomes(_)
TradeOutcomes(pl) ==
  IF pl.rubies < RUBY_COST THEN {pl}
  ELSE {pl}
       \cup TradeOutcomes([pl EXCEPT !.rubies = @ - RUBY_COST, !.droplet_pos = @ + 1])
       \cup (IF pl.potion_filled THEN {}
             ELSE TradeOutcomes([pl EXCEPT !.rubies = @ - RUBY_COST, !.potion_filled = TRUE]))

phase_ruby_trade ==
  /\ AtPhase("ruby_trade")
  /\ \E out \in [PlayerIds -> UNION {TradeOutcomes(players[pid]) : pid \in PlayerIds}] :
       /\ \A pid \in PlayerIds : out[pid] \in TradeOutcomes(players[pid])
       /\ inp' = Label("phase_ruby_trade", out)
       /\ players' = [pid \in DOMAIN players |->
                        IF pid \in PlayerIds THEN out[pid] ELSE players[pid]]
  /\ Return
  /\ UNCHANGED <<box, bags, palms, desktops, pots, where, eventVars, round_ctx,
                 drawVars, histVars, call, gate, twin, sess>>

\* the end-of-round cleanup of run_round, for the players of pids in order
RECURSIVE CleanupLoop(_, _)
CleanupLoop(S, pids) ==
  IF pids = << >> THEN S
  ELSE LET pid == Head(pids)
           S1 == IF pid \in DOMAIN S.palms /\ S.palms[pid] # << >>
                 THEN return_all_palm_to_bag(S, pid).S ELSE S
       IN CleanupLoop(return_all_pot_to_bag(S1, pid).S, Tail(pids))

\* the cleanup leaving the event pointers as they are
Mutant_Cleanup ==
  /\ pc = "phase"
  /\ inp' = Label("Cleanup", << >>)
  /\ phase_idx > Len(ROUND_PHASES)
  /\ SetChipState(CleanupLoop(Cur, player_ids))
  /\ pc' = "run_game"
  /\ UNCHANGED <<eventVars, round_ctx, round_no, rounds, phase_idx, invoked, gates,
                 crashed_in, drawVars, histVars, call, gate, twin, sess>>

\* run_round after the loop over the phases; run_round returns to run_game
Cleanup ==
  /\ pc = "phase"
  /\ inp' = Label("Cleanup", << >>)
  /\ phase_idx > Len(ROUND_PHASES)
  /\ SetChipState(CleanupLoop(Cur, player_ids))
  /\ active_blue_event' = "None"
  /\ current_event' = "None"
  /\ pc' = "run_game"
  /\ UNCHANGED <<event_deck, event_discard, public_log, round_ctx, round_no, rounds, phase_idx, invoked, gates,
                 crashed_in, drawVars, histVars, call, gate, twin, sess>>

Next ==
  \/ StartRound
  \/ phase_start
  \/ phase_event_card
  \/ phase_rat_tails
  \/ phase_drawing_begin
  \/ draw_player_start
  \/ draw_stop
  \/ draw_to_palm
  \/ draw_place
  \/ phase_winner_and_dice
  \/ phase_chip_eval
  \/ phase_rubies
  \/ phase_vp_and_coins
  \/ phase_purchase
  \/ phase_ruby_trade
  \/ Cleanup
  \/ EndGame

Spec == Init /\ [][Next]_vars

----------------------------------------------------------------------------
(* A short game of several rounds: one gray chip, player 0 four fields from
   a ruby field, and a deck of an unregistered purple card and two blue
   cards with a registered override *)

SHORT_CHIPS == { <<"gray", 1, 1>> }
ShortBags == (0 :> << <<"gray", 1, 1>> >>)
ShortDroplets == (0 :> 4)
SHORT_DECK == <<"EV02", "EV14b", "EV23">>

InitShort == InitRun(SHORT_CHIPS, 1, ShortDroplets, ShortBags, SHORT_DECK, ShortRounds)

SpecShort == InitShort /\ [][Next]_vars

----------------------------------------------------------------------------
(* One round up to the end of the drawing, on a pool with yellow and red
   chips and a deck with blue cards *)

DrawBags == (0 :> << <<"gray", 1, 1>>, <<"gray", 2, 1>>, <<"yellow", 1, 1>> >>)
            @@ (1 :> << <<"gray", 1, 1>>, <<"red", 1, 1>>, <<"orange", 1, 1>> >>)

DRAW_DECK == <<"EV15", "EV20">>

InitDraw == InitGame(DRAW_CHIPS, DrawBags, DRAW_DECK)

NextDraw ==
  \/ StartRound
  \/ phase_start
  \/ phase_event_card
  \/ phase_rat_tails
  \/ phase_drawing_begin
  \/ draw_player_start
  \/ draw_stop
  \/ draw_to_palm
  \/ draw_place

SpecDraw == InitDraw /\ [][NextDraw]_vars

----------------------------------------------------------------------------
(* run_round's loop over the phases, whatever the handlers write to round_ctx *)

\* keys a handler may leave in round_ctx
CtxKeys == {"gray_limit", "rat_tails", "drawing_results"}

\* PHASE_DISPATCH[phase_id](...) returns; the handler left the keys of some
\* subset of CtxKeys in round_ctx
call_phase ==
  /\ pc = "phase"
  /\ phase_idx \in 1..Len(ROUND_PHASES)
  /\ PrereqOk(CurPhase)
  /\ \E keys \in SUBSET CtxKeys :
       round_ctx' = [k \in keys |-> IF k \in DOMAIN round_ctx THEN round_ctx[k] ELSE 0]
  /\ Return
  /\ UNCHANGED <<chipVars, eventVars, drawVars, histVars, call, gate, inp, twin, sess>>

\* the RuntimeError of the requirements check leaves run_round and run_game
PrereqFail ==
  /\ pc = "phase"
  /\ phase_idx \in 1..Len(ROUND_PHASES)
  /\ ~PrereqOk(CurPhase)
  /\ pc' = "crashed"
  /\ crashed_in' = CurPhase
  /\ UNCHANGED <<chipVars, eventVars, round_ctx, round_no, rounds, phase_idx, invoked, gates,
                 drawVars, histVars, call, gate, inp, twin, sess>>

NextPrereq ==
  \/ StartRound
  \/ call_phase
  \/ PrereqFail
  \/ Cleanup

SpecPrereq == Init /\ [][NextPrereq]_vars

----------------------------------------------------------------------------
(* A game in which every player can exceed the gray limit *)

BUST_CHIPS == { <<"gray", 1, 2>>, <<"gray", 2, 2>> }

BustBags == (0 :> << <<"gray", 1, 1>>, <<"gray", 2, 1>> >>)
            @@ (1 :> << <<"gray", 1, 1>>, <<"gray", 2, 1>> >>)

ALMS_DECK == <<"EV12">>

InitBust == InitGame(BUST_CHIPS, BustBags, ALMS_DECK)

SpecBust == InitBust /\ [][Next]_vars

----------------------------------------------------------------------------
(* A round up to the end of the drawing with no blue card in the deck *)

InitPlain == InitGame(DRAW_CHIPS, DrawBags, ALMS_DECK)

SpecPlain == InitPlain /\ [][NextDraw]_vars

----------------------------------------------------------------------------
(* The round up to the end of the drawing with players who answer 'y' at
   every "Continue drawing?" prompt; the program takes its next step whenever
   the input it waits for is typed *)

NextContinue ==
  \/ StartRound
  \/ phase_start
  \/ phase_event_card
  \/ phase_rat_tails
  \/ phase_drawing_begin
  \/ draw_player_start
  \/ draw_to_palm
  \/ draw_place

\* the first player holds the chips of the potion, first-gray and yellow
\* prompts, the second one gray chip; the deck holds the first-gray card
ContinueBags == (0 :> << <<"gray", 1, 1>>, <<"gray", 2, 1>>, <<"yellow", 1, 1>> >>)
                @@ (1 :> << <<"gray", 1, 1>> >>)

FIRST_GRAY_DECK == <<"EV15">>

InitContinue == InitGame(DRAW_CHIPS, ContinueBags, FIRST_GRAY_DECK)

SpecContinue == InitContinue /\ [][NextContinue]_vars /\ WF_vars(NextContinue)

----------------------------------------------------------------------------
(* The same round with the return of the palm enabled by a rule *)

NextReturn ==
  \/ NextDraw
  \/ EnableReturnAll
  \/ draw_return_all

SpecReturn == InitPlain /\ [][NextReturn]_vars

----------------------------------------------------------------------------
(* A round up to the dice, every step taken a second time from the same
   state with the same decisions and the same values of the generator *)

\* the state of the program and of its histories, as one value
Snap ==
  <<box, bags, palms, desktops, pots, where, players,
    event_deck, event_discard, current_event, active_blue_event, public_log,
    round_ctx, pc, round_no, rounds, phase_idx, invoked, gates, crashed_in,
    draw_i, exploded, pos_last, results, eff_limit,
    round_start, granted, potion_spent, commits, audit, call, gate>>

\* the program is put back into the state s
Restore(s) ==
  /\ box' = s[1] /\ bags' = s[2] /\ palms' = s[3] /\ desktops' = s[4]
  /\ pots' = s[5] /\ where' = s[6] /\ players' = s[7]
  /\ event_deck' = s[8] /\ event_discard' = s[9] /\ current_event' = s[10]
  /\ active_blue_event' = s[11] /\ public_log' = s[12]
  /\ round_ctx' = s[13] /\ pc' = s[14] /\ round_no' = s[15] /\ rounds' = s[16]
  /\ phase_idx' = s[17] /\ invoked' = s[18] /\ gates' = s[19] /\ crashed_in' = s[20]
  /\ draw_i' = s[21] /\ exploded' = s[22] /\ pos_last' = s[23] /\ results' = s[24]
  /\ eff_limit' = s[25]
  /\ round_start' = s[26] /\ granted' = s[27] /\ potion_spent' = s[28]
  /\ commits' = s[29] /\ audit' = s[30] /\ call' = s[31] /\ gate' = s[32]
  /\ sess' = sess

Rewound == [act |-> "rewound", args |-> << >>]

\* the game as set up: from here on every step is recorded
TwinStart ==
  /\ twin.mode = "off"
  /\ pc = "run_game" /\ round_no = 0
  /\ twin' = [mode |-> "marked", pre |-> Snap, post |-> << >>, want |-> NoInput]
  /\ UNCHANGED <<chipVars, eventVars, round_ctx, driverVars, drawVars, histVars, call, gate, inp, sess>>

\* the steps of a round up to the dice
NextDice ==
  \/ NextDraw
  \/ phase_winner_and_dice

\* one step of the program: the first run of it, or the second run with the
\* decisions and generator values of the first
TwinStep ==
  /\ \/ twin.mode = "marked" /\ inp = NoInput
     \/ twin.mode = "redo" /\ inp = Rewound
  /\ NextDice
  /\ twin.mode = "redo" => (inp'.act = twin.want.act /\ inp'.args = twin.want.args)

\* the first run goes on from the state the step reached
TwinGoOn ==
  /\ twin.mode = "marked" /\ inp # NoInput
  /\ twin' = [mode |-> "marked", pre |-> Snap, post |-> << >>, want |-> NoInput]
  /\ inp' = NoInput
  /\ UNCHANGED <<chipVars, eventVars, round_ctx, driverVars, drawVars, histVars, call, gate, sess>>

\* the second run: back to the state before the step, with the state the
\* step reached and what it consumed kept for the comparison
TwinRewind ==
  /\ twin.mode = "marked" /\ inp # NoInput
  /\ Restore(twin.pre)
  /\ twin' = [mode |-> "redo", pre |-> twin.pre, post |-> Snap, want |-> inp]
  /\ inp' = Rewound

NextTwin ==
  \/ TwinStart
  \/ TwinStep
  \/ TwinGoOn
  \/ TwinRewind

SpecTwin == Init /\ [][NextTwin]_vars

----------------------------------------------------------------------------
(* confirm_all_players, one prompt at a time *)

\* what a player can have typed at "Player pid confirm? [y]:", after strip().lower()
GATE_ANSWERS == {"y", "yes", "", "n", "no"}

\* every answer taken as an acknowledgement
Mutant_Acknowledges(ans) == TRUE

\* the answers that leave the inner while loop
Acknowledges(ans) == ans \in {"y", "yes", ""}

\* the player lists a call is made with
GATE_LISTS == UNION { [1..n -> PlayerIds] : n \in 0..MaxGateList }

\* the call: the prompt is broadcast and the for loop reaches its first player
\* (with an empty list the loop body never runs and the call returns)
confirm_open ==
  /\ pc = "api"
  /\ gate.pc = "idle"
  /\ \E pids \in GATE_LISTS :
       gate' = [pc |-> IF pids = << >> THEN "returned" ELSE "asking",
                player_ids |-> pids, i |-> 1, acked |-> << >>,
                answers |-> 0, last |-> "None"]
  /\ public_log' = Append(public_log, <<"[CONFIRM-ALL]", "prompt", "None">>)
  /\ UNCHANGED <<chipVars, event_deck, event_discard, current_event, active_blue_event,
                 round_ctx, driverVars, drawVars, histVars, call, inp, twin, sess>>

\* one input() of the inner loop: an acknowledgement breaks to the next pid of
\* the for loop (after the last pid the call returns), any other answer
\* prints the reminder and asks the same player again
confirm_answer ==
  /\ gate.pc = "asking"
  /\ gate.answers < MaxAnswers
  /\ \E ans \in GATE_ANSWERS :
       gate' = IF Acknowledges(ans)
               THEN [gate EXCEPT !.acked = Append(@, gate.player_ids[gate.i]),
                                 !.i = @ + 1,
                                 !.pc = IF gate.i = Len(gate.player_ids)
                                        THEN "returned" ELSE "asking",
                                 !.answers = @ + 1,
                                 !.last = ans]
               ELSE [gate EXCEPT !.answers = @ + 1, !.last = ans]
  /\ UNCHANGED <<chipVars, eventVars, round_ctx, driverVars, drawVars, histVars, call, inp, twin, sess>>

InitConfirm ==
  /\ InitChipState(build_pool(CALL_CHIPS))
  /\ call = NoCall
  /\ InitDriverIdle

NextConfirm ==
  \/ confirm_open
  \/ confirm_answer

SpecConfirm == InitConfirm /\ [][NextConfirm]_vars

----------------------------------------------------------------------------
(* Direct calls on a fresh pool, or a game *)

SpecAll == (InitActions \/ Init) /\ [][NextActions \/ Next]_vars

----------------------------------------------------------------------------
(* Properties *)

\* the chip ids created at pool construction
Created == ChipsOf(IF pc = "api" THEN CALL_CHIPS ELSE GAME_CHIPS)

\* the places where chip c is held: <<zone, player, index>>
SlotsIn(zone, lists, c) ==
  UNION { {<<zone, p, i>> : i \in {j \in DOMAIN lists[p] : lists[p][j] = c}} : p \in DOMAIN lists }
SlotsOf(c) ==
  (IF c \in box THEN {<<"box", None, 0>>} ELSE {})
  \cup SlotsIn("bag", bags, c) \cup SlotsIn("palm", palms, c)
  \cup SlotsIn("desktop", desktops, c) \cup SlotsIn("pot", pots, c)

\* every chip id held in some container
HeldIn(lists) == UNION {Elems(lists[p]) : p \in DOMAIN lists}
AllHeld == box \cup HeldIn(bags) \cup HeldIn(palms) \cup HeldIn(desktops) \cup HeldIn(pots)

\* C1: conservation. In every reachable state (setup operations, zone
\* transitions, game rounds) the chips held in the box, the bags, the palms,
\* the desktops and the pots are exactly the chips created at pool
\* construction, each held exactly once.
C1_Conservation ==
  /\ AllHeld = Created
  /\ \A c \in Created : Cardinality(SlotsOf(c)) = 1

\* a chip given at setup was drawn, placed in a pot and another one parked on a
\* desktop, while the box still holds chips
C1_Witness ==
  /\ pc = "api"
  /\ \E p \in DOMAIN pots : pots[p] # << >>
  /\ \E p \in DOMAIN desktops : desktops[p] # << >>
  /\ box # {}

\* the containers that hold chip c: <<zone, player>>
Holders(c) == {<<slot[1], slot[2]>> : slot \in SlotsOf(c)}

\* C2: exactly-one-zone. For every chip the where index names the zone and
\* the player of the one container that holds the chip, and the player is None
\* exactly when the zone is the box.
C2_ExactlyOneZone ==
  \A c \in DOMAIN where :
    /\ Holders(c) = {<<where[c].zone, where[c].player>>}
    /\ (where[c].player = None) <=> (where[c].zone = "box")

\* a completed move to the desktop, with chips in pot, bag and box as well
C2_Witness ==
  /\ call.op = "move_chip_palm_to_desktop" /\ ~call.err
  /\ \E c \in DOMAIN where : where[c].zone = "desktop"
  /\ \E c \in DOMAIN where : where[c].zone = "pot"
  /\ \E c \in DOMAIN where : where[c].zone = "bag"
  /\ \E c \in DOMAIN where : where[c].zone = "box"

\* number of occurrences of x in seq
Count(seq, x) == Cardinality({k \in DOMAIN seq : seq[k] = x})

\* the step is the call op(p, ...) on a non-empty bag of p
DrawCall(op, p) ==
  /\ call'.op = op /\ call'.p = p
  /\ p \in DOMAIN bags /\ bags[p] # << >>

\* what one draw of player p into dest (palms or pots) does
SingleDraw(p, dest, destNew, other, otherNew, zone) ==
  LET c == call'.ret
  IN /\ ~call'.err
     /\ c \in Elems(bags[p])
     /\ Len(bags'[p]) = Len(bags[p]) - 1
     /\ \A x \in DOMAIN where :
          Count(bags'[p], x) = Count(bags[p], x) - (IF x = c THEN 1 ELSE 0)
     /\ destNew[p] = Append(dest[p], c)
     /\ Len(destNew[p]) = Len(dest[p]) + 1
     /\ \A q \in DOMAIN bags \ {p} : bags'[q] = bags[q] /\ destNew[q] = dest[q]
     /\ otherNew = other
     /\ UNCHANGED <<box, desktops, players>>
     /\ where' = [where EXCEPT ![c] = Loc(zone, p)]

\* C10: single draw. One draw from a non-empty bag (to the palm, or to the
\* pot) removes exactly one chip from the bag and appends that chip at the end
\* of the destination; the bag shrinks by one, the destination grows by one
\* and every other container is unchanged.
C10_SingleDraw ==
  [][\A p \in PlayerIds :
       /\ DrawCall("draw_from_bag_to_palm", p)
            => SingleDraw(p, palms, palms', pots, pots', "palm")
       /\ DrawCall("draw_from_bag", p)
            => SingleDraw(p, pots, pots', palms, palms', "pot")]_vars

\* a draw to the palm of a player whose palm already held a chip and whose
\* bag is not emptied by the draw
C10_Witness ==
  /\ call.op = "draw_from_bag_to_palm" /\ ~call.err
  /\ Len(palms[call.p]) = 2
  /\ palms[call.p][2] = call.ret
  /\ bags[call.p] # << >>

\* run_round has returned to run_game after its cleanup
AfterCleanup == pc \in {"run_game", "game_over"} /\ round_no >= 1

\* run_round has been left, by return or by an exception
RoundLeft == AfterCleanup \/ pc = "crashed"

PalmsAndPotsEmpty == \A p \in PlayerIds : palms[p] = << >> /\ pots[p] = << >>

\* C3 as stated: after the cleanup every palm and pot is empty and each bag
\* has the size of the player's bag, palm and pot together at the start of the
\* round, whatever the die and the event card of the round did.
C3_AsStated ==
  AfterCleanup =>
    /\ PalmsAndPotsEmpty
    /\ \A p \in PlayerIds : Len(bags[p]) = round_start[p]

\* C3: round cleanup postcondition. After the cleanup every palm and pot is
\* empty and each bag has the size of the player's bag, palm and pot together
\* at the start of the round plus the number of chips the player took from
\* the box during the round (die face 4, the purple chip of EV13/EV14).
C3_CleanupPostcondition ==
  AfterCleanup =>
    /\ PalmsAndPotsEmpty
    /\ \A p \in PlayerIds : Len(bags[p]) = round_start[p] + granted[p]

\* a finished round in which a player ended the drawing with chips in the pot
\* and a player took a chip from the box
C3_Witness ==
  /\ AfterCleanup
  /\ \E p \in PlayerIds : round_ctx["drawing_results"][p].chip_sum > 0
  /\ \E p \in PlayerIds : granted[p] > 0

\* C4: round cleanup always executes. Whenever run_round has been left, by
\* return or by an error of a phase handler, every palm and pot is empty and
\* the active blue event and the current event are cleared.
C4_CleanupAlways ==
  RoundLeft =>
    /\ PalmsAndPotsEmpty
    /\ active_blue_event = "None"
    /\ current_event = "None"

IsPrefix(s, t) == Len(s) <= Len(t) /\ \A k \in 1..Len(s) : s[k] = t[k]

\* C5: fixed phase order. The handlers invoked in a round are a prefix of
\* start, event_card, rat_tails, drawing, winner_and_dice, chip_eval, rubies,
\* vp_and_coins, purchase, ruby_trade, and when the cleanup has run all ten
\* have been invoked, once each and in that order.
C5_PhaseOrder ==
  /\ IsPrefix(invoked, ROUND_PHASES)
  /\ AfterCleanup => invoked = ROUND_PHASES

\* a round that ran to completion
C5_Witness == AfterCleanup /\ Len(invoked) = 10 /\ invoked[10] = "ruby_trade"

\* the driver is about to invoke a phase for which a declared key is missing
MissingKey ==
  /\ pc = "phase"
  /\ phase_idx \in 1..Len(ROUND_PHASES)
  /\ \E key \in PHASE_REQUIRES[CurPhase] : key \notin DOMAIN round_ctx

\* C6: phase prerequisite check. If a key declared for the phase about to be
\* invoked is absent from round_ctx, the driver raises: the handler of the
\* phase is not invoked, and after the error no phase is invoked any more.
C6_PrereqCheck ==
  [][/\ MissingKey => (pc' = "crashed" /\ crashed_in' = CurPhase /\ invoked' = invoked)
     /\ pc = "crashed" => (pc' = "crashed" /\ invoked' = invoked)]_vars

\* the check stopped the round before winner_and_dice: the drawing handler
\* returned without leaving drawing_results
C6_Witness ==
  /\ pc = "crashed"
  /\ crashed_in = "winner_and_dice"
  /\ "drawing_results" \notin DOMAIN round_ctx
  /\ invoked = <<"start", "event_card", "rat_tails", "drawing">>

\* a player's drawing loop is running
InDrawLoop == pc \in {"draw_ask", "draw_palm"}

\* trackers[pid]["pos_last"]
TrackerPos(ctx, pid) == ctx["draw_trackers"][pid].pos_last

\* the step spends the potion of pid
PotionUsed(pid) == players[pid].potion_filled /\ ~players'[pid].potion_filled

\* C7: position monotonicity. Within a player's drawing sequence pos_last
\* never decreases from one step to the next, also when a chip leaves the pot
\* again (yellow removing the gray chip before it, the EV15 return of the
\* first gray chip, the potion undo); the potion undo leaves pos_last as it
\* is, and the recorded result carries the tracker's value.
C7_PositionMonotone ==
  [][InDrawLoop =>
       LET pid == DrawPid
       IN /\ TrackerPos(round_ctx', pid) >= TrackerPos(round_ctx, pid)
          /\ TrackerPos(round_ctx, pid) = pos_last
          /\ pc' # "phase" => pos_last' >= pos_last
          /\ PotionUsed(pid) => TrackerPos(round_ctx', pid) = TrackerPos(round_ctx, pid)
          /\ pid \in DOMAIN results' =>
               results'[pid].pos_last = TrackerPos(round_ctx', pid)]_vars

\* the pot holds a yellow chip and no gray chip, and the position is further
\* from the start than the values in the pot add up to: a gray chip was placed
\* and then removed by the yellow one
C7_Witness ==
  /\ pc = "draw_ask"
  /\ SelectColor(pots[DrawPid], "yellow") # << >>
  /\ SelectColor(pots[DrawPid], "gray") = << >>
  /\ get_active_blue_card(active_blue_event) # "EV15"
  /\ pos_last - round_ctx["draw_trackers"][DrawPid].pos_start > SumValues(pots[DrawPid])

\* the explosion limit of the round
EffLimit == apply_blue_draw_rule(active_blue_event, CtxGet(round_ctx, "gray_limit", 7))

\* the drawing results recorded so far in the round
Recorded ==
  IF "drawing_results" \in DOMAIN round_ctx THEN round_ctx["drawing_results"] ELSE results

GraySum(p) == pot_sums(Cur, p)[1]

\* C8: explosion. A player's loop goes on only while the gray sum of the pot
\* is within the effective limit; a player whose gray sum exceeds the limit
\* has exploded set in the recorded result and an empty palm, and once a
\* player's result is recorded nothing is drawn or placed for that player.
C8_Explosion ==
  /\ [](InDrawLoop => GraySum(DrawPid) <= EffLimit /\ ~exploded)
  /\ [](\A p \in DOMAIN Recorded :
          /\ palms[p] = << >>
          /\ GraySum(p) > EffLimit => Recorded[p].exploded)
  /\ [][\A p \in DOMAIN Recorded :
          bags'[p] = bags[p] /\ palms'[p] = palms[p] /\ pots'[p] = pots[p]]_vars

\* player 0 exploded and player 1 is drawing
C8_Witness ==
  /\ pc = "draw_ask"
  /\ draw_i = 2
  /\ pots[1] # << >>
  /\ results[0].exploded
  /\ GraySum(0) > EffLimit
  /\ palms[0] = << >>

\* C9: explosion boundary. A player is recorded as exploded only with a gray
\* sum strictly above the effective limit; with a gray sum equal to the limit
\* the player is not exploded and is asked again whether to draw.
C9_ExplosionBoundary ==
  /\ \A p \in DOMAIN Recorded : Recorded[p].exploded => Recorded[p].gray_sum > EffLimit
  /\ (InDrawLoop /\ GraySum(DrawPid) = EffLimit) => ~exploded
  /\ (pc = "draw_ask" /\ GraySum(DrawPid) = EffLimit) => ENABLED draw_to_palm

\* a player at the prompt with a gray sum equal to the limit and chips to draw
C9_Witness ==
  /\ pc = "draw_ask"
  /\ GraySum(DrawPid) = EffLimit
  /\ ~exploded
  /\ bags[DrawPid] # << >>

----------------------------------------------------------------------------
\* Error contracts of the chip operations

BagEmpty(S, p) == p \notin DOMAIN S.bags \/ S.bags[p] = << >>

\* C11: empty-bag draw. A single draw for a player whose bag is empty fails and
\* leaves the whole state as it was (containers, location index and player
\* records, also for a player without a record), and a second call fails again
\* with the same state.
C11_EmptyBagDraw ==
  \A p \in PlayerIds :
    BagEmpty(Cur, p) =>
      LET r1 == draw_from_bag_to_palm(Cur, p, 1)
          r2 == draw_from_bag_to_palm(r1.S, p, 1)
      IN /\ r1.err /\ r1.S = Cur
         /\ r2.err /\ r2.S = r1.S

\* the list of one zone of one player: state[zone].get(p, [])
ListOf(S, zone, p) ==
  LET lists == CASE zone = "bag" -> S.bags
                 [] zone = "palm" -> S.palms
                 [] zone = "desktop" -> S.desktops
                 [] zone = "pot" -> S.pots
  IN IF p \in DOMAIN lists THEN lists[p] ELSE << >>

PlayerZones == {"bag", "palm", "desktop", "pot"}

\* the chips of every container and the where index are those of T
SameChips(S, T) ==
  /\ S.box = T.box
  /\ S.where = T.where
  /\ \A q \in PlayerIds, z \in PlayerZones : ListOf(S, z, q) = ListOf(T, z, q)

\* r is the result of moving cid from src to dst of player p in the current state
MoveContract(r, src, dst, p, cid) ==
  IF cid \notin Elems(ListOf(Cur, src, p))
  THEN r.err /\ SameChips(r.S, Cur)
  ELSE /\ ~r.err
       /\ r.S.box = box
       /\ r.S.where = [where EXCEPT ![cid] = Loc(dst, p)]
       /\ \A q \in PlayerIds, z \in PlayerZones :
            ListOf(r.S, z, q) =
              IF q = p /\ z = src THEN ListRemove(ListOf(Cur, z, q), cid)
              ELSE IF q = p /\ z = dst THEN Append(ListOf(Cur, z, q), cid)
              ELSE ListOf(Cur, z, q)

BoxMatch(color) == {cid \in box : ChipColor(cid) = color}

\* C13: SupplyExhausted. Taking a chip of a color of which the box holds none
\* fails, and the box, every bag and the where index are as before the call.
C13_SupplyExhausted ==
  \A p \in PlayerIds, color \in DOMAIN ColorRank :
    BoxMatch(color) = {} =>
      LET r == take_any_chip_of_color_from_box_to_bag(Cur, p, color)
      IN r.err /\ SameChips(r.S, Cur)

\* a take has just failed while the box still holds chips of another color
C13_Witness ==
  /\ call.op = "take_any_chip_of_color_from_box_to_bag"
  /\ call.err
  /\ box # {}
  /\ BoxMatch("purple") = {}

\* C14: deterministic supply pick. When the box holds a chip of the requested
\* color, the take succeeds and moves the chip of that color with the lowest
\* chip_id from the box to the end of the player's bag; the chip depends only
\* on the content of the box.
C14_LowestChipId ==
  \A p \in PlayerIds, color \in DOMAIN ColorRank :
    BoxMatch(color) # {} =>
      LET r == take_any_chip_of_color_from_box_to_bag(Cur, p, color)
          c == r.ret
      IN /\ ~r.err
         /\ c \in BoxMatch(color)
         /\ \A d \in BoxMatch(color) : d = c \/ ChipIdLess(c, d)
         /\ r.S.box = box \ {c}
         /\ r.S.where = [where EXCEPT ![c] = Loc("bag", p)]
         /\ \A q \in PlayerIds, z \in PlayerZones :
              ListOf(r.S, z, q) = IF q = p /\ z = "bag" THEN Append(ListOf(Cur, z, q), c)
                                  ELSE ListOf(Cur, z, q)
         /\ \A q \in PlayerIds :
              take_any_chip_of_color_from_box_to_bag(Cur, q, color).ret = c

\* a take has just returned a chip while a chip of the same color with a
\* higher chip_id stays in the box
C14_Witness ==
  /\ call.op = "take_any_chip_of_color_from_box_to_bag"
  /\ ~call.err
  /\ \E d \in BoxMatch(ChipColor(call.ret)) : ChipIdLess(call.ret, d)
  /\ where[call.ret] = Loc("bag", call.p)

\* C15: draw_n. Drawing n chips from a bag of b chips to the palm never
\* raises, whatever the random source returns; it moves min(n, b) chips, the
\* returned list is the list of chips appended to the palm, in that order, the
\* bag loses exactly those chips and nothing else changes but their where
\* entries.
C15_DrawN ==
  \A p \in PlayerIds, n \in 0..MaxPalmDraw :
    \A r \in draw_n_from_bag_to_palm(Cur, p, n) :
      LET bag == ListOf(Cur, "bag", p)
          b == Len(bag)
      IN /\ ~r.err
         /\ Len(r.ret) = IF n < b THEN n ELSE b
         /\ ListOf(r.S, "palm", p) = ListOf(Cur, "palm", p) \o r.ret
         /\ Len(ListOf(r.S, "bag", p)) = b - Len(r.ret)
         /\ Elems(ListOf(r.S, "bag", p)) = Elems(bag) \ Elems(r.ret)
         /\ Cardinality(Elems(r.ret)) = Len(r.ret)
         /\ r.S.box = box
         /\ r.S.where = [c \in DOMAIN where |->
                           IF c \in Elems(r.ret) THEN Loc("palm", p) ELSE where[c]]
         /\ \A q \in PlayerIds, z \in PlayerZones :
              (q # p \/ z \in {"desktop", "pot"}) => ListOf(r.S, z, q) = ListOf(Cur, z, q)

\* a draw of two chips has just returned them in the order of the palm, and
\* the bag still holds a chip
C15_Witness ==
  /\ call.op = "draw_n_from_bag_to_palm"
  /\ Len(call.ret) = 2
  /\ palms[call.p] = call.ret
  /\ bags[call.p] # << >>

----------------------------------------------------------------------------
\* The potion

\* C16 as stated: over a whole game each player's potion starts filled and is
\* spent to undo a placement at most once.
C16_AsStated ==
  /\ (pc = "run_game" /\ round_no = 0) => \A p \in PlayerIds : players[p].potion_filled
  /\ \A p \in DOMAIN potion_spent : potion_spent[p] <= 1

\* C16: consumable charge. Each player's potion starts filled. It is spent
\* only when it is filled, and spending it empties it; it is emptied in no
\* other way. An empty potion is filled again only in the ruby trade, for
\* RUBY_COST rubies. So the potion is spent at most once per round, and a
\* second time in a game only after a refill.
C16_PotionCharge ==
  /\ [](\A p \in DOMAIN potion_spent :
          /\ (pc = "run_game" /\ round_no = 0) => players[p].potion_filled
          /\ potion_spent[p] <= round_no)
  /\ [][\A p \in DOMAIN potion_spent :
          /\ potion_spent'[p] # potion_spent[p] =>
               /\ potion_spent'[p] = potion_spent[p] + 1
               /\ players[p].potion_filled /\ ~players'[p].potion_filled
          /\ (players[p].potion_filled /\ ~players'[p].potion_filled) =>
               potion_spent'[p] = potion_spent[p] + 1
          /\ (~players[p].potion_filled /\ players'[p].potion_filled) =>
               /\ CurPhase = "ruby_trade"
               /\ players[p].rubies >= RUBY_COST
               /\ players'[p].rubies <= players[p].rubies - RUBY_COST]_vars

\* player 0 has spent the potion in the first round, refilled it in the ruby
\* trade and spent it again in the second round
C16_Witness ==
  /\ potion_spent[0] = 2
  /\ round_no = 2
  /\ ~players[0].potion_filled

----------------------------------------------------------------------------
\* The event deck

\* C17: event deck without replacement. The deck and the discard pile never
\* share a card and neither holds a card twice; together they hold exactly
\* the cards the game started with; the discard pile holds at most one card
\* per round started; a step never makes the deck longer, and a step that
\* changes the deck is the event-card phase moving one card of the deck to
\* the end of the discard pile.
C17_DeckWithoutReplacement ==
  /\ [](/\ Elems(event_deck) \cap Elems(event_discard) = {}
        /\ Cardinality(Elems(event_deck)) = Len(event_deck)
        /\ Cardinality(Elems(event_discard)) = Len(event_discard)
        /\ Elems(event_deck) \cup Elems(event_discard) = Elems(SHORT_DECK)
        /\ Len(event_discard) <= round_no)
  /\ [][/\ Len(event_deck') <= Len(event_deck)
        /\ (event_deck' # event_deck \/ event_discard' # event_discard) =>
             /\ CurPhase = "event_card"
             /\ Len(event_deck') = Len(event_deck) - 1
             /\ \E idx \in 1..Len(event_deck) :
                  /\ event_deck' = [j \in 1..(Len(event_deck) - 1) |->
                                      IF j < idx THEN event_deck[j] ELSE event_deck[j + 1]]
                  /\ event_discard' = Append(event_discard, event_deck[idx])]_vars

\* the second round has drawn the second card
C17_Witness ==
  /\ round_no = 2
  /\ Len(event_discard) = 2
  /\ Len(event_deck) = 1
  /\ current_event = event_discard[2]

\* the driver is between two rounds, or in a round before the event-card
\* phase has run
BeforeEventCard == pc = "run_game" \/ (pc = "phase" /\ CurPhase \in {"start", "event_card"})

\* C18: lifetime of the active blue card. The active pointer names at most
\* one card; when it names one, that card is blue, it is the current event
\* and the last card discarded, drawn in the round that is running. The
\* pointer is set only by the event-card phase, to the card that phase takes
\* from the deck. Between two rounds and in a round up to its event-card
\* phase the active and the current-event pointers are empty, so the card of
\* one round is never consulted in the next.
C18_BlueLifetime ==
  /\ [](/\ active_blue_event # "None" =>
             /\ EVENT_CARDS[active_blue_event].color = "blue"
             /\ active_blue_event = current_event
             /\ active_blue_event = event_discard[Len(event_discard)]
             /\ Len(event_discard) = round_no
             /\ ~BeforeEventCard
        /\ BeforeEventCard => active_blue_event = "None" /\ current_event = "None")
  /\ [][(active_blue_event' # active_blue_event /\ active_blue_event' # "None") =>
          /\ CurPhase = "event_card"
          /\ active_blue_event' \in Elems(event_deck)
          /\ active_blue_event' \notin Elems(event_deck')]_vars

\* a blue card was active in the first round; the second round has drawn the
\* purple card and has reached a reward phase with no card active
C18_Witness ==
  /\ round_no = 2
  /\ event_discard = <<"EV23", "EV02">>
  /\ pc = "phase" /\ CurPhase = "vp_and_coins"
  /\ active_blue_event = "None"
  /\ current_event = "EV02"

----------------------------------------------------------------------------
\* The reward phases

\* the step is the handler of phase ph returning
PhaseStep(ph) == pc = "phase" /\ CurPhase = ph /\ phase_idx' = phase_idx + 1

----------------------------------------------------------------------------
\* Purple cards without a handler

\* C20: unregistered one-shot card. When the event-card phase draws a purple
\* card whose card_id has no entry in PURPLE_EFFECTS, the handler returns to
\* the driver without an error, no chip has moved and no player record has
\* changed, and the public log has got an entry saying that no implementation
\* is registered for that card.
C20_UnregisteredPurple ==
  [][(/\ pc = "phase" /\ CurPhase = "event_card"
      /\ current_event' # "None"
      /\ EVENT_CARDS[current_event'].color = "purple"
      /\ EVENT_CARDS[current_event'].card_id \notin PURPLE_EFFECTS) =>
       /\ pc' = "phase" /\ phase_idx' = phase_idx + 1
       /\ crashed_in' = "None"
       /\ UNCHANGED chipVars
       /\ \E k \in (Len(public_log) + 1)..Len(public_log') :
            public_log'[k] = <<"[PURPLE EVENT]", "No implementation registered",
                               EVENT_CARDS[current_event'].card_id>>]_vars

\* the card without a handler has been executed and the round goes on
C20_Witness ==
  /\ current_event = "EV02"
  /\ pc = "phase" /\ CurPhase = "rat_tails"
  /\ \E k \in DOMAIN public_log :
       public_log[k] = <<"[PURPLE EVENT]", "No implementation registered", "EV02">>

----------------------------------------------------------------------------
\* The extension points of the blue cards

\* the pointer names no blue card with an entry in the table
NoEntry(active, table) ==
  \/ active = "None"
  \/ EVENT_CARDS[active].color # "blue"
  \/ EVENT_CARDS[active].card_id \notin table

\* C21: the extension points default to no modification. For every value of
\* the active pointer that names no card, or a card whose card_id has no
\* entry in the table of the extension point, the draw rule returns the limit
\* it was given, the rubies rule the gain it was given and the score rule
\* the coins and victory points it was given; and the limit the drawing
\* phase works with is then the gray_limit of the round.
C21_NoModification ==
  /\ \A active \in DOMAIN EVENT_CARDS \cup {"None"} :
       /\ NoEntry(active, BLUE_DRAW_RULES) =>
            \A limit \in 0..blue_draw_ev20 : apply_blue_draw_rule(active, limit) = limit
       /\ NoEntry(active, BLUE_RUBIES_RULES) =>
            \A gain \in 0..RUBY_COST, landed \in BOOLEAN :
              apply_blue_rubies_rule(active, gain, landed) = gain
       /\ NoEntry(active, BLUE_SCORE_RULES) =>
            \A add_coins \in 0..RUBY_COST, add_vp \in 0..RUBY_COST, landed \in BOOLEAN :
              apply_blue_score_rule(active, add_coins, add_vp, landed) = <<add_coins, add_vp>>
  /\ (InDrawLoop /\ NoEntry(active_blue_event, BLUE_DRAW_RULES)) =>
       eff_limit = CtxGet(round_ctx, "gray_limit", 7)

\* the drawing runs with a blue card active that has no draw rule, on the
\* limit of the round
C21_Witness ==
  /\ InDrawLoop
  /\ active_blue_event = "EV23"
  /\ eff_limit = GrayLimitArg
  /\ pots[0] # << >>

\* C22: a call of confirm_all_players has returned only when every listed
\* player, in the order of the list, has acknowledged; an answer other than
\* "y", "yes" or the empty line leaves the gate at the same player, and the
\* call does not return on it.
C22_UnanimousGate ==
  /\ [](gate.pc = "returned" => gate.acked = gate.player_ids)
  /\ [][(gate.pc = "asking" /\ gate'.answers = gate.answers + 1
          /\ gate'.last \notin {"y", "yes", ""})
        => (gate'.pc = "asking" /\ gate'.i = gate.i /\ gate'.acked = gate.acked)]_vars

\* a gate over three players returned after one of them had first refused
C22_Witness ==
  /\ gate.pc = "returned"
  /\ Len(gate.player_ids) = MaxGateList
  /\ gate.answers > Len(gate.player_ids)

\* C23: every phase handler that has returned to run_round's loop this round
\* passed a confirm_all_players gate over all players before it returned.
C23_GateBetweenPhases == pc # "crashed" => invoked = gates

\* the players that did not explode in the recorded drawing results
NotExploded(res) == {p \in PlayerIds : ~res[p].exploded}

\* the players of group whose final position no player of group exceeds
TopOf(res, group) ==
  {p \in group : \A q \in group : res[q].pos_last <= res[p].pos_last}

\* the winners as the rule states them
RuleWinners(res) ==
  IF NotExploded(res) # {} THEN TopOf(res, NotExploded(res)) ELSE TopOf(res, PlayerIds)

\* C25: once the dice are resolved, the players with a recorded roll are
\* exactly the non-exploded players at the maximum final position among the
\* non-exploded players, or, when every player exploded, the players at the
\* maximum final position of all; the winner-and-dice step changes the
\* counters and the bag of no other player.
C25_WinnerDetermination ==
  /\ []("dice_results" \in DOMAIN round_ctx
         => DOMAIN round_ctx["dice_results"] = RuleWinners(round_ctx["drawing_results"]))
  /\ [][PhaseStep("winner_and_dice")
        => \A p \in PlayerIds \ RuleWinners(round_ctx["drawing_results"]) :
             players'[p] = players[p] /\ bags'[p] = bags[p]]_vars

\* every player exploded, at different positions, and only the one further
\* ahead rolled
C25_Witness ==
  /\ "dice_results" \in DOMAIN round_ctx
  /\ NotExploded(round_ctx["drawing_results"]) = {}
  /\ Cardinality(DOMAIN round_ctx["dice_results"]) = 1

\* C26: an effect that finds no chip of its color in the box does not abort
\* the round: neither the event-card handler (the take-a-chip choice of a
\* one-shot card) nor the winner-and-dice handler (die face 4) is left by an
\* error.
C26_MissingResourceRecovery ==
  pc = "crashed" => crashed_in \notin {"event_card", "winner_and_dice"}

\* C27: the public log only grows, and no player is asked for a decision
\* while a chip movement has no public-log entry after it: no prompt of a
\* placement (potion, first-gray return, yellow removal) is shown between
\* the commit to the pot and the next broadcast.
C27_AuditCoverage ==
  /\ [][IsPrefix(public_log, public_log')]_vars
  /\ [](audit = {})

\* the player's drawing loop has ended, and neither the next player's loop
\* nor a later handler has begun
DrawDone(p) ==
  \/ pc = "draw_start" /\ draw_i > 1 /\ p = player_ids[draw_i - 1]
  \/ /\ pc = "phase" /\ phase_idx <= Len(ROUND_PHASES) /\ CurPhase = "winner_and_dice"
     /\ p = player_ids[Len(player_ids)]

\* the result snapshot of a player whose loop has ended
DrawResult(p) ==
  IF pc = "phase" THEN round_ctx["drawing_results"][p] ELSE results[p]

\* the case of the default step: no committed chip of a color with a step
\* rule, no commit undone by potion, no blue card active
DefaultStepCase ==
  /\ \A k \in DOMAIN commits.cids : ChipColor(commits.cids[k]) \notin {"red"}
  /\ commits.undone = 0
  /\ active_blue_event = "None"

\* the sum of the printed values of a list of chips
RECURSIVE PrintedSum(_)
PrintedSum(cids) ==
  IF cids = << >> THEN 0 ELSE ChipValue(Head(cids)) + PrintedSum(Tail(cids))

\* s is t with some entries left out
RECURSIVE IsSubseq(_, _)
IsSubseq(s, t) ==
  IF s = << >> THEN TRUE
  ELSE IF t = << >> THEN FALSE
  ELSE \/ Head(s) = Head(t) /\ IsSubseq(Tail(s), Tail(t))
       \/ IsSubseq(s, Tail(t))

\* the start position is the droplet position plus the rat tails, the final
\* position the start position plus the printed values of the committed chips
DefaultStepPosition(p) ==
  /\ DrawResult(p).pos_start
       = players[p].droplet_pos + CtxGet(CtxGet(round_ctx, "rat_tails", << >>), p, 0)
  /\ DrawResult(p).pos_last = DrawResult(p).pos_start + PrintedSum(commits.cids)

\* the claim as stated: in the default-step case the pot holds exactly
\* the committed chips and the bag has shrunk by their number
C28_AsStated ==
  \A p \in PlayerIds :
    (DrawDone(p) /\ DefaultStepCase)
      => /\ DefaultStepPosition(p)
         /\ pots[p] = commits.cids
         /\ Len(bags[p]) = commits.bag0 - Len(commits.cids)

\* C28: default-step drawing result. When a player's drawing has ended with
\* no committed chip of a color with a step rule, no commit undone by potion
\* and no blue card active, the final position is the start position
\* (droplet position plus rat tails) plus the printed values of the committed
\* chips; the pot holds the committed chips in commit order, less the gray
\* chips a yellow chip sent back to the bag, and the bag has shrunk by the
\* size of the pot; with no yellow chip committed the pot is exactly the
\* committed chips.
C28_DefaultStep ==
  \A p \in PlayerIds :
    (DrawDone(p) /\ DefaultStepCase)
      => /\ DefaultStepPosition(p)
         /\ IsSubseq(pots[p], commits.cids)
         /\ Len(bags[p]) = commits.bag0 - Len(pots[p])
         /\ (\A k \in DOMAIN commits.cids : ChipColor(commits.cids[k]) # "yellow")
              => pots[p] = commits.cids

\* player 0 committed its three chips and the yellow one sent a gray chip
\* back to the bag
C28_Witness ==
  /\ DrawDone(0) /\ DefaultStepCase
  /\ Len(commits.cids) = 3
  /\ Len(pots[0]) = 2

\* a placement of the player whose loop runs: the step that commits the chip
\* as the last entry of the loop's commits
Placement(p, cid) ==
  /\ pc = "draw_palm" /\ DrawPid = p
  /\ commits'.cids = Append(commits.cids, cid)

\* C29: potion undo. A placement is undone by potion only if the chip is
\* gray, the player has not exploded and the potion is filled; the undone
\* chip is back in the bag, the potion is empty, and position, trackers, the
\* EV15 flag, the rest of the pot and the explosion state are as before the
\* placement, the drawing loop going on with the next prompt. A placement of
\* a gray chip by a player with a filled potion that is not undone leaves
\* the potion filled.
C29_PotionUndo ==
  [][\A p \in PlayerIds : \A cid \in AllChips :
       Placement(p, cid) =>
         /\ commits'.undone # commits.undone
              => /\ ChipColor(cid) = "gray" /\ ~exploded /\ players[p].potion_filled
                 /\ where'[cid] = Loc("bag", p)
                 /\ cid \in Elems(bags'[p])
                 /\ ~players'[p].potion_filled
                 /\ pos_last' = pos_last
                 /\ round_ctx' = round_ctx
                 /\ pots' = pots
                 /\ exploded' = exploded
                 /\ pc' = "draw_ask"
         /\ (commits'.undone = commits.undone /\ players[p].potion_filled)
              => players'[p].potion_filled]_vars

\* a gray chip placed while the EV15 option was open was undone by potion:
\* the option is still unused
C29_Witness ==
  /\ pc = "draw_ask"
  /\ commits.undone = 1
  /\ card_id_of(active_blue_event) = "EV15"
  /\ ~CtxGet(round_ctx["ev15_first_white_return_used"], DrawPid, FALSE)
  /\ pots[DrawPid] # << >>

\* the gray chips of the running loop that reached the placement step
GraysPlaced ==
  Cardinality({k \in DOMAIN commits.cids : ChipColor(commits.cids[k]) = "gray"})
    - commits.undone

\* the first-gray option is marked used for the player
Ev15Used(ctx, p) ==
  /\ "ev15_first_white_return_used" \in DOMAIN ctx
  /\ CtxGet(ctx["ev15_first_white_return_used"], p, FALSE)

\* C30: once-per-round first-gray return. With EV15 active a player's
\* drawing loop offers the return at most once, exactly at the first gray
\* chip that reaches the placement step; after the offer the option is marked
\* used for that player, whatever the answer, and the mark stays for the rest
\* of the round. Without EV15 active nothing is offered.
C30_FirstGrayOnce ==
  /\ [](commits.offers <= 1)
  /\ [][\A p \in PlayerIds : \A cid \in AllChips :
          Placement(p, cid) =>
            /\ (commits'.offers # commits.offers)
                 <=> /\ card_id_of(active_blue_event) = "EV15"
                     /\ ChipColor(cid) = "gray"
                     /\ commits'.undone = commits.undone
                     /\ GraysPlaced = 0
            /\ (commits'.offers # commits.offers) => Ev15Used(round_ctx', p)]_vars
  /\ [][\A p \in PlayerIds :
          (Ev15Used(round_ctx, p) /\ round_no' = round_no) => Ev15Used(round_ctx', p)]_vars

\* after the one offer of the loop a second gray chip reached the placement
\* step without an offer
C30_Witness ==
  /\ commits.offers = 1
  /\ GraysPlaced >= 2
  /\ card_id_of(active_blue_event) = "EV15"

DrawingEnded == pc = "phase" /\ CurPhase = "winner_and_dice"

\* C31: the palm is transient. The step that resolves a palm (one chip
\* placed, or the whole palm returned) puts at most one chip of the palm
\* into the pot and every other chip of the palm into the bag, and leaves
\* the palm empty; the palm of the player is empty at every "Continue
\* drawing?" prompt, and every palm is empty when the drawing phase ends.
C31_PalmTransient ==
  /\ [](pc = "draw_ask" => palms[DrawPid] = << >>)
  /\ [](DrawingEnded => \A p \in PlayerIds : palms[p] = << >>)
  /\ [][pc = "draw_palm" =>
          LET p == DrawPid
              palm == Elems(palms[p])
          IN /\ palms'[p] = << >>
             /\ Cardinality({c \in palm : c \in Elems(pots'[p])}) <= 1
             /\ \A c \in palm : c \in Elems(pots'[p]) \/ c \in Elems(bags'[p])
             /\ Len(pots'[p]) <= Len(pots[p]) + 1
             /\ Len(bags'[p]) >= Len(bags[p]) + Len(palms[p]) - 1
             /\ (commits'.cids = commits.cids) =>
                  /\ pots'[p] = pots[p]
                  /\ Len(bags'[p]) = Len(bags[p]) + Len(palms[p])]_vars

\* one chip was placed in an earlier iteration, and the latest iteration drew
\* two chips and returned both: the player is at the prompt with an empty palm
C31_Witness ==
  /\ pc = "draw_ask"
  /\ allow_return_all(round_ctx)
  /\ Len(commits.cids) = 1 /\ commits.undone = 0
  /\ commits.flushed = 2
  /\ Len(pots[DrawPid]) = 1
  /\ palms[DrawPid] = << >>

\* C32: bag exhaustion is a normal stop. A step from the "Continue
\* drawing?" prompt of a player whose bag is empty (the answer 'y' draws
\* nothing) raises no error, ends the player's loop with a result that is not
\* exploded and holds the position the tracker had, leaves the tracker, the
\* bag and the pot as they were and the palm empty, and goes on to the next
\* player, or to the end of the phase after the last one.
C32_BagExhausted ==
  [][(pc = "draw_ask" /\ bags[DrawPid] = << >>) =>
       LET p == DrawPid
           last == draw_i = Len(player_ids)
           res == IF last THEN CtxGet(round_ctx', "drawing_results", << >>) ELSE results'
       IN /\ pc' # "crashed" /\ crashed_in' = crashed_in
          /\ palms'[p] = << >> /\ bags'[p] = << >> /\ pots'[p] = pots[p]
          /\ round_ctx'["draw_trackers"] = round_ctx["draw_trackers"]
          /\ p \in DOMAIN res
          /\ ~res[p].exploded
          /\ res[p].pos_last = pos_last
          /\ res[p].pos_last = round_ctx["draw_trackers"][p].pos_last
          /\ IF last
             THEN pc' = "phase" /\ phase_idx' = phase_idx + 1
                  /\ DOMAIN res = PlayerIds
             ELSE pc' = "draw_start" /\ draw_i' = draw_i + 1]_vars

\* the first player answered 'y' with an empty bag after a placement: the
\* loop has ended without explosion and the second player's loop is next
C32_Witness ==
  /\ pc = "draw_start" /\ draw_i = 2
  /\ commits.exhausted
  /\ commits.cids # << >>
  /\ bags[0] = << >> /\ palms[0] = << >>
  /\ ~results[0].exploded

\* trackers holds an entry of the player
HasTracker(ctx, p) ==
  "draw_trackers" \in DOMAIN ctx /\ p \in DOMAIN ctx["draw_trackers"]

\* the orange chips of a list of chips
Oranges(cids) == Cardinality({k \in DOMAIN cids : ChipColor(cids[k]) = "orange"})

\* C33: path-dependent red step. A placement that is not undone by potion
\* advances the player's position tracker by the chip's printed value, plus,
\* for a red chip, the number of orange chips in the pot at that moment; no
\* other step changes the tracker, so the amount a chip added stays what it
\* was at its placement whatever is committed to or removed from the pot
\* later.
C33_RedStep ==
  [][\A p \in PlayerIds :
       (HasTracker(round_ctx, p) /\ HasTracker(round_ctx', p)) =>
         IF /\ commits'.undone = commits.undone
            /\ \E cid \in AllChips : Placement(p, cid)
         THEN LET cid == commits'.cids[Len(commits'.cids)]
              IN TrackerPos(round_ctx', p) - TrackerPos(round_ctx, p)
                   = IF ChipColor(cid) = "red"
                     THEN ChipValue(cid) + Oranges(pots[p])
                     ELSE ChipValue(cid)
         ELSE TrackerPos(round_ctx', p) = TrackerPos(round_ctx, p)]_vars

\* a red chip of value 1 was placed after an orange one and advanced the
\* tracker by 2; a gray chip placed after it advanced it by its value, 1
C33_Witness ==
  /\ pc = "draw_ask" /\ DrawPid = 1
  /\ Len(commits.cids) = 3 /\ commits.undone = 0
  /\ ChipColor(commits.cids[1]) = "orange"
  /\ ChipColor(commits.cids[2]) = "red" /\ ChipValue(commits.cids[2]) = 1
  /\ ChipColor(commits.cids[3]) = "gray"
  /\ TrackerPos(round_ctx, 1)
       = round_ctx["draw_trackers"][1].pos_start + ChipValue(commits.cids[1]) + 2 + 1

\* the colors with a rule in neither dispatch table
Unregistered(cid) == ChipColor(cid) \notin PLACEMENT_STEP_RULES \cup ON_PLACE_RULES

\* the state in which apply_on_place_effects is called for a chip of the
\* palm that is placed and not returned
AtDispatch(p, cid) ==
  LET S1 == move_chip_palm_to_pot(Cur, p, cid).S
  IN IF S1.palms[p] # << >> THEN return_all_palm_to_bag(S1, p).S ELSE S1

\* a commit of a chip of an unregistered color raises nothing, steps by the
\* printed value in both implementations of the step, and its on-place
\* dispatch returns the state it was given
C34_Fallback ==
  /\ [](pc = "draw_palm" =>
          \A cid \in Elems(palms[DrawPid]) :
            Unregistered(cid) =>
              LET S == AtDispatch(DrawPid, cid)
              IN /\ effective_placement_step(S, DrawPid, cid) = ChipValue(cid)
                 /\ policy_effective_placement_step(S, DrawPid, cid) = ChipValue(cid)
                 /\ \A yn \in BOOLEAN : apply_on_place_effects(S, DrawPid, cid, yn) = S)
  /\ [][\A p \in PlayerIds : \A cid \in AllChips :
          (Placement(p, cid) /\ Unregistered(cid)) =>
            /\ pc' # "crashed"
            /\ commits'.undone = commits.undone
                 => TrackerPos(round_ctx', p) = TrackerPos(round_ctx, p) + ChipValue(cid)]_vars

\* C34: unregistered chip color. Committing a chip whose color has a rule in
\* neither the placement-step table nor the on-place table never raises, its
\* step is the printed value, the on-place dispatch changes no container, no
\* location and no player counter, and the public log holds an entry for the
\* fallback.
C34_UnregisteredColor ==
  /\ C34_Fallback
  /\ [][\A p \in PlayerIds : \A cid \in AllChips :
          (Placement(p, cid) /\ Unregistered(cid) /\ commits'.undone = commits.undone) =>
            \E k \in DOMAIN commits'.logged :
              commits'.logged[k] \notin {"EV15 returned", "PLACED", "POTION USED"}]_vars

\* the phase whose handler writes a key of round_ctx
KeyWriter(key) ==
  CASE key = "rat_tails" -> "rat_tails"
    [] key \in {"draw_trackers", "ev15_first_white_return_used", "drawing_results"} -> "drawing"
    [] key = "dice_results" -> "winner_and_dice"
    [] OTHER -> "None"

\* the handler of phase ph has been entered in the round that is running
EnteredThisRound(ph) ==
  \/ ph \in Elems(invoked)
  \/ ph = "drawing" /\ pc \in {"draw_start", "draw_ask", "draw_palm"}

\* C35: the round context is round-scoped. When the first phase of a round is
\* about to be invoked round_ctx holds the gray limit set by the driver and
\* nothing else, and at any later moment every other key it holds was written
\* by a handler entered in the same round, so that no phase reads a value of
\* an earlier round.
C35_RoundScoped ==
  /\ (pc = "phase" /\ phase_idx = 1) => round_ctx = ("gray_limit" :> GrayLimitArg)
  /\ round_no >= 1 =>
       \A key \in DOMAIN round_ctx \ {"gray_limit"} : EnteredThisRound(KeyWriter(key))

\* the second round is about to invoke its first phase, after a first round
\* whose handlers wrote rat tails, trackers, drawing and dice results
C35_Witness ==
  /\ pc = "phase" /\ phase_idx = 1 /\ round_no = 2
  /\ DOMAIN round_ctx = {"gray_limit"}
  /\ \E p \in PlayerIds : pots[p] = << >> /\ players[p].coins > 0

\* C36: prerequisites are always met in a driven round. Whenever the driver
\* is about to invoke a phase, every key declared for it is in round_ctx: the
\* gray limit before the drawing, and the drawing results, with an entry for
\* each player, before winner_and_dice, rubies and vp_and_coins. The
\* prerequisite error is never raised.
C36_PrereqMet ==
  (pc = "phase" /\ phase_idx \in 1..Len(ROUND_PHASES)) =>
    /\ \A key \in PHASE_REQUIRES[CurPhase] : key \in DOMAIN round_ctx
    /\ "drawing_results" \in PHASE_REQUIRES[CurPhase]
         => DOMAIN round_ctx["drawing_results"] = PlayerIds
    /\ ~ENABLED PrereqFail

\* the second round is about to invoke vp_and_coins, the last phase with a
\* declared key, with the results of both players
C36_Witness ==
  /\ pc = "phase" /\ CurPhase = "vp_and_coins" /\ round_no = 2
  /\ PHASE_REQUIRES[CurPhase] = {"drawing_results"}
  /\ DOMAIN round_ctx["drawing_results"] = PlayerIds

\* what a drawing loop can still use up: the chips the player can draw
\* (bag and palm), the yellow chips among them, the filled potion and the
\* unused first-gray return
DrawRank ==
  LET p == DrawPid
      held == bags[p] \o palms[p]
  IN Len(held) + Len(SelectColor(held, "yellow"))
       + (IF players[p].potion_filled THEN 1 ELSE 0)
       + (IF /\ card_id_of(get_active_blue_card(active_blue_event)) = "EV15"
             /\ ~CtxGet(round_ctx["ev15_first_white_return_used"], p, FALSE)
          THEN 1 ELSE 0)

\* C37: drawing terminates. With the return of the whole palm not enabled,
\* the drawing loop of a player who answers 'y' at every "Continue drawing?"
\* prompt ends, whatever the answers to the potion, first-gray-return and
\* yellow-removal prompts are, and it ends by an empty bag or an explosion.
\* Every iteration that does not end the loop uses up a chip of the bag, a
\* yellow chip, the potion or the first-gray return.
C37_DrawingTerminates ==
  /\ (pc \in {"draw_ask", "draw_palm"}) ~> (pc \in {"draw_start", "phase"})
  /\ [](\A p \in PlayerIds :
          DrawDone(p) => (DrawResult(p).exploded \/ commits.exhausted))
  /\ [](~allow_return_all(round_ctx))
  /\ [][(pc \in {"draw_ask", "draw_palm"} /\ pc' \in {"draw_ask", "draw_palm"}) =>
          /\ DrawRank' <= DrawRank
          /\ pc = "draw_palm" => DrawRank' < DrawRank]_vars

\* the first player's loop has ended by explosion after five placements, of
\* which one was undone by potion and others were taken back by the
\* first-gray return or the yellow rule
C37_Witness ==
  /\ DrawDone(0)
  /\ DrawResult(0).exploded
  /\ Len(commits.cids) >= 5
  /\ commits.undone = 1

\* the last call was the pair of placement-step calls
StepCalled == call.op = "effective_placement_step"

\* for an id with containers the two implementations return the same value:
\* the printed value, plus the orange chips of the pot for a red chip
C38_AgreeRegistered ==
  (StepCalled /\ (call.ret.registered \/ ChipColor(call.ret.cid) # "red")) =>
    /\ ~call.err
    /\ call.ret.rounds = call.ret.policy
    /\ call.ret.policy = ChipValue(call.ret.cid)
                           + (IF ChipColor(call.ret.cid) = "red" THEN call.ret.oranges ELSE 0)

\* C38: the two placement-step implementations agree. For every state,
\* player and chip, effective_placement_step of rounds.py returns the value
\* that effective_placement_step of chip_policies.py returns.
C38_StepsAgree ==
  StepCalled => (~call.err /\ call.ret.rounds = call.ret.policy)

----------------------------------------------------------------------------
\* The ruby account

\* the potion of player p is filled by the step
Refilled(p) == ~players[p].potion_filled /\ players'[p].potion_filled

\* the trades of player p in the step: droplet moves and potion refills
Trades(p) ==
  (players'[p].droplet_pos - players[p].droplet_pos) + (IF Refilled(p) THEN 1 ELSE 0)

\* C39: rubies never go negative. Every player's ruby count is at least 0 in
\* every state. The ruby-trade phase takes RUBY_COST rubies for each trade
\* (a droplet move of one field or a potion refill) and nothing else, never
\* more than the player holds, so each trade was made with at least
\* RUBY_COST rubies in hand; it fills a potion only if it was empty and
\* never empties one. No other step takes rubies away.
C39_RubiesNonNegative ==
  /\ [](\A p \in DOMAIN players : players[p].rubies >= 0)
  /\ [][\A p \in DOMAIN players \cap DOMAIN players' :
          IF PhaseStep("ruby_trade")
          THEN /\ Trades(p) >= 0
               /\ players'[p].droplet_pos >= players[p].droplet_pos
               /\ players'[p].rubies = players[p].rubies - RUBY_COST * Trades(p)
               /\ players[p].rubies >= RUBY_COST * Trades(p)
               /\ players[p].potion_filled => players'[p].potion_filled
               /\ Trades(p) > 0 => players[p].rubies >= RUBY_COST
          ELSE players'[p].rubies >= players[p].rubies]_vars

\* the second round's ruby trade has returned: player 0 spent the potion in
\* both rounds and paid RUBY_COST rubies for each refill, which left none
C39_Witness ==
  /\ round_no = 2
  /\ pc = "phase"
  /\ phase_idx = Len(ROUND_PHASES) + 1
  /\ players[0].rubies = 0
  /\ players[0].potion_filled
  /\ potion_spent[0] = 2

----------------------------------------------------------------------------
\* The web session

\* the cursor of a session
Cursor(s) == <<s.round_idx, s.phase_idx, s.current_pid>>

\* the joined player after cur in ascending pid order, the lowest one after
\* the highest
NextJoined(ps, cur) ==
  LET later == {q \in ps : q > cur}
      from == IF later # {} THEN later ELSE ps
  IN CHOOSE q \in from : \A x \in from : q <= x

\* t is s after one confirm of the current player
Confirmed(s, t) ==
  IF phase_name(s) # "CLEANUP"
  THEN /\ t.phase_idx = s.phase_idx + 1
       /\ t.phase_idx \in 1..(Len(PHASES) - 1)
       /\ t.round_idx = s.round_idx
       /\ t.current_pid = s.current_pid
  ELSE /\ phase_name(t) = "EVENT"
       /\ t.round_idx = s.round_idx + 1
       /\ t.current_pid = NextJoined(s.players, s.current_pid)

\* C40: web session cursor. The phase index is always an index of the phase
\* list EVENT, DRAW, EVAL, BUY, CLEANUP. A request of a player who is not
\* the current player leaves round index, phase index and current player as
\* they are. A confirm of the current player moves to the next phase of the
\* list; after CLEANUP the phase is EVENT again, the round index is one
\* higher and the current player is the next joined player in ascending pid
\* order, the lowest one after the highest. The cursor moves in no other way.
C40_SessionCursor ==
  /\ [](sess.phase_idx \in 0..(Len(PHASES) - 1))
  /\ [][LET r == sess'.last
        IN /\ r.pid # sess.current_pid => Cursor(sess') = Cursor(sess)
           /\ (r.op = "confirm" /\ r.pid = sess.current_pid) => Confirmed(sess, sess')
           /\ Cursor(sess') # Cursor(sess) => Confirmed(sess, sess')]_vars

\* with two players joined, a confirm of player 1 in CLEANUP has opened the
\* third round and handed the turn back to player 0
C40_Witness ==
  /\ sess.players = {0, 1}
  /\ sess.last = [op |-> "confirm", pid |-> 1]
  /\ sess.round_idx = 3
  /\ phase_name(sess) = "EVENT"
  /\ sess.current_pid = 0

====
